---------------------------- MODULE Spec2Model ----------------------------
(***************************************************************************)
(* Risk fusion, safety governance and the drill / approval workflow of the *)
(* RouteAI-NE backend (src/main.py, src/intelligence/*.py).                *)
(*                                                                         *)
(* Numbers.  Rainfall is in whole millimetres, latitudes in hundredths of  *)
(* a degree (26.14 -> 2614).  The landslide score is a fixed-point number  *)
(* with one decimal digit (SCALE = 10), because the loaded-model branch of *)
(* LandslidePredictor.predict multiplies the slope by 0.8.  The composite  *)
(* score is kept in thousandths (weights 35/25/20/15/5 times SCALE).       *)
(***************************************************************************)
EXTENDS Integers, Sequences, FiniteSets, TLC

(***************************************************************************)
(* Values                                                                  *)
(***************************************************************************)
\* Python's None, for the values the model keeps as strings or numbers.
None == "NONE_OBJ"
NoRain == -9999

\* str(x) as used by the f-strings: None is rendered as the text "None".
Str(x) == IF x = None THEN "None" ELSE x

SCALE == 10

Levels == {"SAFE", "MODERATE", "HIGH", "CRITICAL"}

\* The order SAFE < MODERATE < HIGH < CRITICAL of the risk levels.
Rank(level) ==
    CASE level = "SAFE" -> 0
      [] level = "MODERATE" -> 1
      [] level = "HIGH" -> 2
      [] level = "CRITICAL" -> 3

Max(a, b) == IF a >= b THEN a ELSE b
Min(a, b) == IF a <= b THEN a ELSE b

\* Python's int(): truncation toward zero of x / d (d > 0).
Trunc(x, d) == IF x >= 0 THEN x \div d ELSE -((-x) \div d)

\* A reason text: its template and the values formatted into it.
Reason(kind, text, text2, n1, n2, n3) ==
    [kind |-> kind, text |-> text, text2 |-> text2, n1 |-> n1, n2 |-> n2, n3 |-> n3]

(***************************************************************************)
(* SafetyGovernance.validate_risk                                          *)
(***************************************************************************)
\* Mutant: the critical-slope rule is tested before the cloudburst rule.
validate_risk_slope_first(rain_mm, slope_angle, ai_prediction_score) ==
    IF slope_angle > 45 /\ rain_mm > 40
    THEN [risk |-> "HIGH", score |-> 30 * SCALE,
          reason |-> Reason("UNSTABLE_SLOPE_RAIN", "", "", 0, 0, 0),
          source |-> "ISRO Cartosat DEM"]
    ELSE IF rain_mm > 100
    THEN [risk |-> "CRITICAL", score |-> 10 * SCALE,
          reason |-> Reason("EXTREME_RAINFALL", "", "", 0, 0, 0),
          source |-> "IMD Realtime"]
    ELSE IF ai_prediction_score < 40 * SCALE
    THEN [risk |-> "CRITICAL", score |-> ai_prediction_score,
          reason |-> Reason("AI_MODEL_ALERT", "", "", 0, 0, 0),
          source |-> "RouteAI Fusion Engine"]
    ELSE IF ai_prediction_score < 70 * SCALE
    THEN [risk |-> "MODERATE", score |-> ai_prediction_score,
          reason |-> Reason("AI_MODEL_CAUTION", "", "", 0, 0, 0),
          source |-> "RouteAI Fusion Engine"]
    ELSE [risk |-> "SAFE", score |-> ai_prediction_score,
          reason |-> Reason("NORMAL_CONDITIONS", "", "", 0, 0, 0),
          source |-> "RouteAI Fusion Engine"]

\* Mutant: the critical-slope rule only fires when the AI score is not SAFE.
validate_risk_ai_first(rain_mm, slope_angle, ai_prediction_score) ==
    IF rain_mm > 100
    THEN [risk |-> "CRITICAL", score |-> 10 * SCALE,
          reason |-> Reason("EXTREME_RAINFALL", "", "", 0, 0, 0),
          source |-> "IMD Realtime"]
    ELSE IF ai_prediction_score >= 70 * SCALE
    THEN [risk |-> "SAFE", score |-> ai_prediction_score,
          reason |-> Reason("NORMAL_CONDITIONS", "", "", 0, 0, 0),
          source |-> "RouteAI Fusion Engine"]
    ELSE IF slope_angle > 45 /\ rain_mm > 40
    THEN [risk |-> "HIGH", score |-> 30 * SCALE,
          reason |-> Reason("UNSTABLE_SLOPE_RAIN", "", "", 0, 0, 0),
          source |-> "ISRO Cartosat DEM"]
    ELSE IF ai_prediction_score < 40 * SCALE
    THEN [risk |-> "CRITICAL", score |-> ai_prediction_score,
          reason |-> Reason("AI_MODEL_ALERT", "", "", 0, 0, 0),
          source |-> "RouteAI Fusion Engine"]
    ELSE [risk |-> "MODERATE", score |-> ai_prediction_score,
          reason |-> Reason("AI_MODEL_CAUTION", "", "", 0, 0, 0),
          source |-> "RouteAI Fusion Engine"]

\* Mutant: the AI-score bands compare with <= instead of <.
validate_risk_bands_inclusive(rain_mm, slope_angle, ai_prediction_score) ==
    IF rain_mm > 100
    THEN [risk |-> "CRITICAL", score |-> 10 * SCALE,
          reason |-> Reason("EXTREME_RAINFALL", "", "", 0, 0, 0),
          source |-> "IMD Realtime"]
    ELSE IF slope_angle > 45 /\ rain_mm > 40
    THEN [risk |-> "HIGH", score |-> 30 * SCALE,
          reason |-> Reason("UNSTABLE_SLOPE_RAIN", "", "", 0, 0, 0),
          source |-> "ISRO Cartosat DEM"]
    ELSE IF ai_prediction_score <= 40 * SCALE
    THEN [risk |-> "CRITICAL", score |-> ai_prediction_score,
          reason |-> Reason("AI_MODEL_ALERT", "", "", 0, 0, 0),
          source |-> "RouteAI Fusion Engine"]
    ELSE IF ai_prediction_score <= 70 * SCALE
    THEN [risk |-> "MODERATE", score |-> ai_prediction_score,
          reason |-> Reason("AI_MODEL_CAUTION", "", "", 0, 0, 0),
          source |-> "RouteAI Fusion Engine"]
    ELSE [risk |-> "SAFE", score |-> ai_prediction_score,
          reason |-> Reason("NORMAL_CONDITIONS", "", "", 0, 0, 0),
          source |-> "RouteAI Fusion Engine"]

validate_risk(rain_mm, slope_angle, ai_prediction_score) ==
    IF rain_mm > 100
    THEN [risk |-> "CRITICAL", score |-> 10 * SCALE,
          reason |-> Reason("EXTREME_RAINFALL", "", "", 0, 0, 0),
          source |-> "IMD Realtime"]
    ELSE IF slope_angle > 45 /\ rain_mm > 40
    THEN [risk |-> "HIGH", score |-> 30 * SCALE,
          reason |-> Reason("UNSTABLE_SLOPE_RAIN", "", "", 0, 0, 0),
          source |-> "ISRO Cartosat DEM"]
    ELSE IF ai_prediction_score < 40 * SCALE
    THEN [risk |-> "CRITICAL", score |-> ai_prediction_score,
          reason |-> Reason("AI_MODEL_ALERT", "", "", 0, 0, 0),
          source |-> "RouteAI Fusion Engine"]
    ELSE IF ai_prediction_score < 70 * SCALE
    THEN [risk |-> "MODERATE", score |-> ai_prediction_score,
          reason |-> Reason("AI_MODEL_CAUTION", "", "", 0, 0, 0),
          source |-> "RouteAI Fusion Engine"]
    ELSE [risk |-> "SAFE", score |-> ai_prediction_score,
          reason |-> Reason("NORMAL_CONDITIONS", "", "", 0, 0, 0),
          source |-> "RouteAI Fusion Engine"]


(***************************************************************************)
(* LandslidePredictor                                                      *)
(***************************************************************************)
\* get_isro_static_data: the range random.randint draws the slope from.
SlopeRange(lat) == IF lat > 2600 THEN 30..60 ELSE 5..20

soil_type(lat) == IF lat > 2600 THEN "Loamy-Unstable" ELSE "Alluvial-Stable"

\* predict's ai_score, in tenths.  With a model loaded the score is the
\* float max(0, 100 - rain*0.5 - slope*0.8); without one it is the integer
\* max(0, int(100 - penalty)).
predict_score(loaded, rain_input, slope) ==
    IF loaded
    THEN Max(0, 100 * SCALE - rain_input * 5 - slope * 8)
    ELSE SCALE * Max(0, Trunc(100 * SCALE
                              - (rain_input * 5 + (IF slope > 30 THEN slope * 5 ELSE 0)),
                              SCALE))

(***************************************************************************)
(* SimulationManager                                                       *)
(***************************************************************************)
Scenarios == {"FLASH_FLOOD", "LANDSLIDE_CLUSTER"}

SimInit ==
    [active |-> FALSE, scenario |-> None, target_lat |-> 2614, target_lng |-> 9173]

start_scenario(scenario_type, lat, lng) ==
    [active |-> TRUE, scenario |-> scenario_type, target_lat |-> lat, target_lng |-> lng]

(***************************************************************************)
(* IoTManager                                                              *)
(***************************************************************************)
SENSORS ==
    << [id |-> "SENS_001", type |-> "RIVER_GAUGE", location |-> "Brahmaputra Bank"],
       [id |-> "SENS_002", type |-> "RAIN_GAUGE", location |-> "Shillong Slope A"],
       [id |-> "SENS_003", type |-> "SOIL_MOISTURE", location |-> "NH-06 Pass"] >>

\* Sample values of random.uniform, rounded to two decimals, in hundredths.
SampleValues(type, flash) ==
    IF flash
    THEN CASE type = "RIVER_GAUGE" -> {1500}
           [] type = "RAIN_GAUGE" -> {12000}
           [] OTHER -> {6500}
    ELSE CASE type = "RIVER_GAUGE" -> {1000, 1200}
           [] type = "RAIN_GAUGE" -> {0, 2000}
           [] OTHER -> {4000}

\* The simulation override test of get_live_readings, on the dict it holds.
FlashFlood(sim_state) == sim_state.active /\ sim_state.scenario = "FLASH_FLOOD"

\* Mutant: the gauges are CRITICAL in any active drill, whatever its scenario.
Reading_any_drill(k, flash, v) ==
    LET meta == SENSORS[k] IN
    [id |-> meta.id, type |-> meta.type, location |-> meta.location, value |-> v,
     unit |-> IF meta.type = "RIVER_GAUGE" THEN "m"
              ELSE IF meta.type = "RAIN_GAUGE" THEN "mm/hr" ELSE "%",
     status |-> IF meta.type \in {"RIVER_GAUGE", "RAIN_GAUGE"} /\ (flash \/ v > 1150)
                THEN "CRITICAL" ELSE "NORMAL"]

\* One iteration of the loop of get_live_readings, for sensor k with the
\* drawn value v.
Reading(k, flash, v) ==
    LET meta == SENSORS[k] IN
    [id |-> meta.id, type |-> meta.type, location |-> meta.location, value |-> v,
     unit |-> IF meta.type = "RIVER_GAUGE" THEN "m"
              ELSE IF meta.type = "RAIN_GAUGE" THEN "mm/hr" ELSE "%",
     status |-> IF flash /\ meta.type \in {"RIVER_GAUGE", "RAIN_GAUGE"} THEN "CRITICAL"
                ELSE IF ~flash /\ meta.type = "RIVER_GAUGE" /\ v > 1150 THEN "WARNING"
                ELSE "NORMAL"]

NoBreach ==
    [alert |-> FALSE, type |-> "", location |-> "", value |-> 0, unit |-> ""]

\* check_critical_breach: the first CRITICAL reading, or None (alert FALSE).
check_critical_breach(telemetry_data) ==
    LET crit == {i \in 1..Len(telemetry_data) : telemetry_data[i].status = "CRITICAL"} IN
    IF crit = {} THEN NoBreach
    ELSE LET reading == telemetry_data[CHOOSE i \in crit : \A j \in crit : i <= j] IN
         [alert |-> TRUE, type |-> reading.type, location |-> reading.location,
          value |-> reading.value, unit |-> reading.unit]


(***************************************************************************)
(* analyze_route: the pure part (sections 3, 5, 8 and 9)                   *)
(***************************************************************************)
terrain_risk_score(slope_angle) ==
    IF slope_angle > 35 THEN 90
    ELSE IF slope_angle > 25 THEN 70
    ELSE IF slope_angle > 15 THEN 50
    ELSE 20

\* CrowdManager.evaluate_zone returns None (present FALSE) or a dict with a
\* risk and a source.
NoCrowdIntel == [present |-> FALSE, risk |-> "", source |-> ""]
CrowdIntelValues ==
    {NoCrowdIntel} \cup
    {[present |-> TRUE, risk |-> r, source |-> "Citizen Reports"] :
        r \in {"MODERATE", "HIGH", "CRITICAL"}}

\* crowd_risk of section 5.
crowd_risk_of(crowd_intel) ==
    IF crowd_intel.present /\ crowd_intel.risk \in {"CRITICAL", "HIGH"}
    THEN crowd_intel.risk ELSE "SAFE"

\* Mutant: the weather score is not capped at 100.
risk_factors_uncapped(landslide_score, slope_angle, rain_input, crowd_risk, iot_risk) ==
    [landslide |-> landslide_score,
     terrain |-> terrain_risk_score(slope_angle),
     weather |-> rain_input * 2,
     crowd_intel |-> IF crowd_risk = "CRITICAL" THEN 100
                     ELSE IF crowd_risk = "HIGH" THEN 70 ELSE 30,
     iot_sensors |-> IF iot_risk = "CRITICAL" THEN 100 ELSE 30]

\* risk_factors: the five sub-scores; the landslide score is in tenths, the
\* others are whole numbers.
risk_factors(landslide_score, slope_angle, rain_input, crowd_risk, iot_risk) ==
    [landslide |-> landslide_score,
     terrain |-> terrain_risk_score(slope_angle),
     weather |-> Min(rain_input * 2, 100),
     crowd_intel |-> IF crowd_risk = "CRITICAL" THEN 100
                     ELSE IF crowd_risk = "HIGH" THEN 70 ELSE 30,
     iot_sensors |-> IF iot_risk = "CRITICAL" THEN 100 ELSE 30]

\* The weighted sum in exact arithmetic, in thousandths.
WeightedSum(f) ==
    f.landslide * 35
    + (f.terrain * 25 + f.weather * 20 + f.crowd_intel * 15 + f.iot_sensors * 5) * SCALE

\* The sub-score tuples of this model's inputs for which the double-precision
\* evaluation of lines 878-884 ends one unit in the last place below a whole
\* number that the exact sum reaches (e.g. 66*0.35 + 90*0.25 + 42*0.20 +
\* 30*0.15 + 30*0.05 evaluates to 59.99999999999999).
FloatRoundsBelow == { <<660, 90, 42, 30, 30>> }

\* composite_score as the code computes it, in thousandths: the exact sum,
\* lowered by one thousandth where the float falls short of a whole number
\* (the exact sums are multiples of five thousandths).
composite_score(f) ==
    WeightedSum(f)
    - (IF <<f.landslide, f.terrain, f.weather, f.crowd_intel, f.iot_sensors>>
            \in FloatRoundsBelow THEN 1 ELSE 0)

DrillSource == "National Command Authority (DRILL)"
IoTSource == "IoT Sensor Grid"
CrowdSource == "Citizen Sentinel Network"

BreachReason(breach) ==
    Reason("CRITICAL_ALERT_BREACH", breach.type, breach.location, breach.value, 0, 0)

\* Section 8: the level shown for the landslide score.
landslide_risk_level(landslide_score) ==
    IF landslide_score > 70 * SCALE THEN "HIGH"
    ELSE IF landslide_score > 40 * SCALE THEN "MODERATE" ELSE "LOW"

terrain_type(start_lat) == IF start_lat > 2600 THEN "Hilly" ELSE "Plain"

\* Mutant: the IoT breach is tested before the drill.
FinalVerdict_iot_first(governance_result, composite, landslide_score, slope_angle, rain_input, start_lat, crowd_risk, crowd_intel, breach, drill_active, scenario) ==
    LET score == Trunc(composite, 1000) IN
    IF breach.alert
    THEN [route_risk |-> "CRITICAL", confidence_score |-> score,
          reason |-> BreachReason(breach), source |-> IoTSource]
    ELSE IF drill_active
    THEN [route_risk |-> "CRITICAL", confidence_score |-> score,
          reason |-> Reason("DRILL_ACTIVE", Str(scenario), "", 0, 0, 0),
          source |-> DrillSource]
    ELSE [route_risk |-> "SAFE", confidence_score |-> score,
          reason |-> Reason("ROUTE_CLEARED", "", "", 0, 0, 0),
          source |-> "Comprehensive Safety Validation"]

\* Mutant: the IoT override is missing, so a breach falls through to the
\* crowd and composite branches.
FinalVerdict_no_iot(governance_result, composite, landslide_score, slope_angle, rain_input, start_lat, crowd_risk, crowd_intel, breach, drill_active, scenario) ==
    LET score == Trunc(composite, 1000) IN
    IF drill_active
    THEN [route_risk |-> "CRITICAL", confidence_score |-> score,
          reason |-> Reason("DRILL_ACTIVE", Str(scenario), "", 0, 0, 0),
          source |-> DrillSource]
    ELSE IF crowd_risk \in {"CRITICAL", "HIGH"}
    THEN [route_risk |-> crowd_risk, confidence_score |-> score,
          reason |-> Reason("LIVE_HAZARD", crowd_intel.source, "", 0, 0, 0),
          source |-> CrowdSource]
    ELSE IF composite >= 60 * 1000
    THEN [route_risk |-> "HIGH", confidence_score |-> score,
          reason |-> Reason("ELEVATED_RISK", landslide_risk_level(landslide_score),
                            "", 0, 0, 0),
          source |-> "Integrated Risk Assessment"]
    ELSE [route_risk |-> "MODERATE", confidence_score |-> score,
          reason |-> Reason("MODERATE_CONDITIONS", terrain_type(start_lat), "",
                            rain_input, 0, 0),
          source |-> "Terrain & Weather Analysis"]

\* Mutant: the crowd override also fires for MODERATE intel and is tested
\* after the composite CRITICAL band.
FinalVerdict_crowd_late(governance_result, composite, landslide_score, slope_angle, rain_input, start_lat, crowd_risk, crowd_intel, breach, drill_active, scenario) ==
    LET score == Trunc(composite, 1000) IN
    IF drill_active
    THEN [route_risk |-> "CRITICAL", confidence_score |-> score,
          reason |-> Reason("DRILL_ACTIVE", Str(scenario), "", 0, 0, 0),
          source |-> DrillSource]
    ELSE IF breach.alert
    THEN [route_risk |-> "CRITICAL", confidence_score |-> score,
          reason |-> BreachReason(breach), source |-> IoTSource]
    ELSE IF composite >= 60 * 1000
    THEN [route_risk |-> "HIGH", confidence_score |-> score,
          reason |-> Reason("ELEVATED_RISK", landslide_risk_level(landslide_score),
                            "", 0, 0, 0),
          source |-> "Integrated Risk Assessment"]
    ELSE IF crowd_intel.present
    THEN [route_risk |-> crowd_intel.risk, confidence_score |-> score,
          reason |-> Reason("LIVE_HAZARD", crowd_intel.source, "", 0, 0, 0),
          source |-> CrowdSource]
    ELSE [route_risk |-> "MODERATE", confidence_score |-> score,
          reason |-> Reason("MODERATE_CONDITIONS", terrain_type(start_lat), "",
                            rain_input, 0, 0),
          source |-> "Terrain & Weather Analysis"]

\* Section 9 (lines 887-939): the final risk, confidence, reason and source.
FinalVerdict(governance_result, composite, landslide_score, slope_angle, rain_input, start_lat, crowd_risk, crowd_intel, breach, drill_active, scenario) ==
    LET score == Trunc(composite, 1000) IN
    IF drill_active
    THEN [route_risk |-> "CRITICAL", confidence_score |-> score,
          reason |-> Reason("DRILL_ACTIVE", Str(scenario), "", 0, 0, 0),
          source |-> DrillSource]
    ELSE IF breach.alert
    THEN [route_risk |-> "CRITICAL", confidence_score |-> score,
          reason |-> BreachReason(breach), source |-> IoTSource]
    ELSE IF crowd_risk \in {"CRITICAL", "HIGH"}
    THEN [route_risk |-> crowd_risk, confidence_score |-> score,
          reason |-> Reason("LIVE_HAZARD", crowd_intel.source, "", 0, 0, 0),
          source |-> CrowdSource]
    ELSE IF composite >= 75 * 1000
    THEN [route_risk |-> "CRITICAL", confidence_score |-> score,
          reason |-> Reason("MULTI_FACTOR_HIGH_RISK", "", "",
                            landslide_score, slope_angle, rain_input),
          source |-> "AI Risk Engine + Satellite Data"]
    ELSE IF composite >= 60 * 1000
    THEN [route_risk |-> "HIGH", confidence_score |-> score,
          reason |-> Reason("ELEVATED_RISK", landslide_risk_level(landslide_score),
                            "", 0, 0, 0),
          source |-> "Integrated Risk Assessment"]
    ELSE IF composite >= 40 * 1000
    THEN [route_risk |-> "MODERATE", confidence_score |-> score,
          reason |-> Reason("MODERATE_CONDITIONS", terrain_type(start_lat), "",
                            rain_input, 0, 0),
          source |-> "Terrain & Weather Analysis"]
    ELSE [route_risk |-> "SAFE", confidence_score |-> score,
          reason |-> Reason("ROUTE_CLEARED", "", "", 0, 0, 0),
          source |-> "Comprehensive Safety Validation"]


(***************************************************************************)
(* State                                                                   *)
(***************************************************************************)
VARIABLES
    modelLoaded,        \* predictor.model is set (landslide_rf.pkl was loaded)
    simState,           \* the dict SimulationManager.state refers to
    auditLog,           \* the entries of AuditLogger, in insertion order
    PENDING_DECISIONS,  \* the pending proposals, most recent first
    ev,                 \* the analyze_route call in flight: position and locals
    evOld,              \* the dict analyze_route still holds after start_scenario
                        \* rebound SimulationManager.state
    stopPc,             \* the stop_simulation call in flight
    resp,               \* the response of the last admin call
    gov,                \* a validate_risk call on its own: arguments and result
    decided,            \* the ids decide has resolved so far
    lock,               \* the decide call holding the workflow's mutual exclusion (0: none)
    calls,              \* the decide calls in flight, by caller
    subs,               \* the submissions in flight, by submitter
    opsDone,            \* the state-changing admin operations so far, in order
    created,            \* the proposal create_proposal returned last, and the ids
                        \* it returned before
    closed,             \* a zone is marked CLOSED by an admin override
    prev,               \* the evaluation completed before the one in flight
    FLEET,              \* LogisticsManager.FLEET: the status of each unit
    active_missions,    \* LogisticsManager.active_missions, by mission id
    dispatched,         \* the request_dispatch calls so far: what each returned
    MESH_BUFFER,        \* the messages of the mesh relay, oldest first
    meshSent,           \* every message appended to MESH_BUFFER so far, in order
    meshPc,             \* the send_mesh_message calls in flight, by sender
    comp,               \* a scoring of one input on its own: the input and the result
    authority_decisions, \* the committed AuthorityDecision rows
    audit_logs,         \* the committed AuditLog rows
    rec                 \* the record_authority_decision call in flight and its session

raceVars == <<lock, calls, subs>>

\* The state of the components beside the evaluation and the workflow.
logisticsVars == <<FLEET, active_missions, dispatched>>

meshVars == <<MESH_BUFFER, meshSent, meshPc>>

dbVars == <<authority_decisions, audit_logs, rec>>

sideVars == <<logisticsVars, meshVars, comp, dbVars>>

coreVars == <<raceVars, opsDone, created, closed, decided, gov, prev, modelLoaded, simState, auditLog, PENDING_DECISIONS, ev, evOld, stopPc, resp>>

vars == <<coreVars, sideVars>>

\* Bounds of the model.
MaxAudit == 2

MASTER_ADMIN_KEY == "NDRF-COMMAND-2026-SECURE"
ApiKeys == {MASTER_ADMIN_KEY, "wrong-key"}

\* rain_input values of the requests (NoRain: the parameter is omitted).
RainInputs == {NoRain, 0, -10, 21, 50, 101, 250}
\* start_lat values: Shillong (plain side of 26.0) and Guwahati (hill side).
Lats == {2557, 2614}
\* The slopes random.randint is let to draw, within SlopeRange.
SlopeSamples == {5, 16, 30, 31, 46}

NoReading ==
    [id |-> "", type |-> "", location |-> "", value |-> 0, unit |-> "", status |-> ""]
NoVerdict ==
    [risk |-> "", score |-> 0, reason |-> Reason("", "", "", 0, 0, 0), source |-> ""]
NoResult ==
    [route_risk |-> "", confidence_score |-> 0,
     reason |-> Reason("", "", "", 0, 0, 0), source |-> ""]
NoFactors ==
    [landslide |-> 0, terrain |-> 0, weather |-> 0, crowd_intel |-> 0, iot_sensors |-> 0]

EvIdle ==
    [pc |-> "idle", request |-> [rain_input |-> NoRain, start_lat |-> 0],
     rain_input |-> NoRain, start_lat |-> 0, slope_angle |-> 0,
     landslide_score |-> 0, governance_result |-> NoVerdict,
     crowd_intel |-> NoCrowdIntel, first_reading |-> NoReading,
     iot_status |-> <<>>, breach |-> NoBreach, ref |-> "none",
     drill_active |-> FALSE, scenario |-> None, factors |-> NoFactors,
     result |-> NoResult]

NoResp == [op |-> "", code |-> 0, id |-> 0]

\* The threads that can be inside decide, and inside a submission, at once.
Callers == {1, 2}
Submitters == {1, 2}

NoProposal ==
    [id |-> 0, type |-> "", target_zone |-> [lat |-> 0, lng |-> 0, radius |-> ""],
     reason |-> Reason("", "", "", 0, 0, 0), ai_confidence |-> 0, source_intel |-> "",
     status |-> "", urgency |-> ""]

CallIdle ==
    [pc |-> "idle", proposal_id |-> 0, action |-> "", notes |-> "", code |-> 0,
     pending_at_call |-> FALSE]
SubIdle == [pc |-> "idle"]
NoCreated ==
    [last |-> NoProposal, risk_data |-> NoVerdict, lat |-> 0, lng |-> 0, ids |-> {}]

GovIdle == [pc |-> "idle", rain_mm |-> 0, slope_angle |-> 0,
            ai_prediction_score |-> 0, out |-> NoVerdict]

\* What is kept of a completed evaluation: the request, the external
\* signals it read and what it computed.
Snapshot(e) ==
    [valid |-> TRUE,
     request |-> e.request,
     rain_input |-> e.rain_input,
     crowd_intel |-> e.crowd_intel,
     iot_status |-> e.iot_status,
     breach |-> e.breach,
     drill_active |-> e.drill_active,
     scenario |-> e.scenario,
     slope_angle |-> e.slope_angle,
     landslide_score |-> e.landslide_score,
     result |-> e.result]

NoPrev == [Snapshot(EvIdle) EXCEPT !.valid = FALSE]

\* The dict the reference held by analyze_route (or by the get_live_readings
\* call it is in) leads to.
EvDict == IF ev.ref = "old" THEN evOld ELSE simState

\* AuditLogger.log(actor, action, details, severity).
AuditLogger_log(log, actor, action, details, severity) ==
    Append(log, [actor |-> actor, action |-> action, details |-> details,
                 severity |-> severity])


(***************************************************************************)
(* LogisticsManager                                                        *)
(***************************************************************************)
\* FLEET, lines 14-19: the fields of the units that never change, with the
\* positions in hundredths of a degree, and the status each unit starts with.
FleetUnits ==
    << [id |-> "NDRF_ALPHA", type |-> "HEAVY_RESCUE", lat |-> 2610, lng |-> 9170],
       [id |-> "AMB_108_01", type |-> "AMBULANCE", lat |-> 2560, lng |-> 9400],
       [id |-> "AMB_108_02", type |-> "AMBULANCE", lat |-> 2615, lng |-> 9178],
       [id |-> "DRONE_SQUAD", type |-> "AERIAL_RECON", lat |-> 2558, lng |-> 9189] >>

FleetInit == << "AVAILABLE", "AVAILABLE", "BUSY", "AVAILABLE" >>

\* calculate_distance, line 26, squared: the square root keeps the order of
\* the distances the loop compares.
calculate_distance(lat1, lng1, lat2, lng2) ==
    (lat1 - lat2) * (lat1 - lat2) + (lng1 - lng2) * (lng1 - lng2)

\* Mutant: the status of the units is not looked at.
best_unit_any_status(fleet, victim_lat, victim_lng) ==
    LET dist(k) == calculate_distance(victim_lat, victim_lng,
                                      FleetUnits[k].lat, FleetUnits[k].lng)
    IN CHOOSE k \in 1..Len(fleet) :
           \A j \in 1..Len(fleet) : dist(k) < dist(j) \/ (dist(k) = dist(j) /\ k <= j)

\* The loop of lines 33-43: the index of the first unit at the least distance
\* among the units with status AVAILABLE, 0 (None) when there is none.
best_unit(fleet, victim_lat, victim_lng) ==
    LET avail == {k \in 1..Len(fleet) : fleet[k] = "AVAILABLE"}
        dist(k) == calculate_distance(victim_lat, victim_lng,
                                      FleetUnits[k].lat, FleetUnits[k].lng)
    IN IF avail = {} THEN 0
       ELSE CHOOSE k \in avail :
                \A j \in avail : dist(k) < dist(j) \/ (dist(k) = dist(j) /\ k <= j)

\* The values int(time.time()) takes while the calls are made, and the ETAs
\* random.randint(5, 15) draws.
MaxTime == 2
Times == 1..MaxTime
Etas == {5, 15}
VictimPositions == {<<2614, 9173>>, <<2557, 9188>>, <<2560, 9300>>}

NoMission == [mission_id |-> 0, unit |-> "", eta_minutes |-> 0, status |-> ""]

\* The clock does not run backwards between two calls.
LastTime == IF dispatched = <<>> THEN 1 ELSE dispatched[Len(dispatched)].time

\* No record_authority_decision call in progress; txn counts the sessions
\* opened so far.
RecIdle == [pc |-> "idle", txn |-> 0]

\* No scoring on its own in progress.
CompIdle == [pc |-> "idle"]

\* Two phones using the relay.
Senders == {"phone_a", "phone_b"}

InitSide ==
    /\ FLEET = FleetInit
    /\ active_missions = [mission_id \in {} |-> NoMission]
    /\ dispatched = <<>>
    /\ MESH_BUFFER = <<>>
    /\ meshSent = <<>>
    /\ meshPc = [t \in Senders |-> "idle"]
    /\ comp = CompIdle
    /\ authority_decisions = <<>>
    /\ audit_logs = <<>>
    /\ rec = RecIdle

\* request_dispatch, lines 29-60.  The mission holds the unit's dict; it is
\* kept here as the unit's id.
request_dispatch(victim_lat, victim_lng, now, eta) ==
    LET k == best_unit(FLEET, victim_lat, victim_lng) IN
    /\ now >= LastTime
    /\ Len(dispatched) <= Len(FLEET)
    /\ IF k # 0
       THEN LET mission_details == [mission_id |-> now, unit |-> FleetUnits[k].id,
                                    eta_minutes |-> eta, status |-> "EN_ROUTE"] IN
            /\ FLEET' = [FLEET EXCEPT ![k] = "DISPATCHED"]
            /\ active_missions' =
                   [m \in DOMAIN active_missions \cup {now} |->
                        IF m = now THEN mission_details ELSE active_missions[m]]
            /\ dispatched' = Append(dispatched,
                                    [time |-> now, lat |-> victim_lat,
                                     lng |-> victim_lng, ret |-> mission_details])
       ELSE /\ dispatched' = Append(dispatched,
                                    [time |-> now, lat |-> victim_lat,
                                     lng |-> victim_lng, ret |-> NoMission])
            /\ UNCHANGED <<FLEET, active_missions>>
    /\ UNCHANGED <<coreVars, meshVars, comp, dbVars>>

Dispatch ==
    \E pos \in VictimPositions, now \in Times, eta \in Etas :
        request_dispatch(pos[1], pos[2], now, eta)

Init ==
    /\ modelLoaded \in BOOLEAN
    /\ simState = SimInit
    /\ auditLog = <<>>
    /\ PENDING_DECISIONS = <<>>
    /\ ev = EvIdle
    /\ evOld = SimInit
    /\ stopPc = "idle"
    /\ resp = NoResp
    /\ decided = {}
    /\ lock = 0
    /\ calls = [c \in Callers |-> CallIdle]
    /\ subs = [c \in Submitters |-> SubIdle]
    /\ opsDone = <<>>
    /\ created = NoCreated
    /\ closed = FALSE
    /\ InitSide
    /\ gov = GovIdle
    /\ prev = NoPrev

(***************************************************************************)
(* analyze_route, one action per access to the shared simulation state     *)
(***************************************************************************)
\* The request arrives (line 805).
AnalyzeStart(rain_input, start_lat) ==
    /\ ev.pc = "idle"
    /\ ev' = [EvIdle EXCEPT !.pc = IF rain_input = NoRain \/ rain_input = 0
                                   THEN "rain_feed" ELSE "predict",
                            !.request = [rain_input |-> rain_input,
                                         start_lat |-> start_lat],
                            !.rain_input = rain_input,
                            !.start_lat = start_lat]
    /\ UNCHANGED <<raceVars, opsDone, created, closed, decided, gov, prev, sideVars, modelLoaded, simState, auditLog, PENDING_DECISIONS, evOld, stopPc, resp>>

\* Section 1, lines 806-812: the rain gauge of the live feed stands in for a
\* missing rainfall; a reading of 0 becomes the default 15.
AnalyzeRainFeed ==
    /\ ev.pc = "rain_feed"
    /\ \E v \in SampleValues("RAIN_GAUGE", FlashFlood(simState)) :
         LET rain_sensor == Reading(2, FlashFlood(simState), v)
             rain == rain_sensor.value \div 100
         IN ev' = [ev EXCEPT !.pc = "predict",
                             !.rain_input = IF rain = 0 THEN 15 ELSE rain]
    /\ UNCHANGED <<raceVars, opsDone, created, closed, decided, gov, prev, sideVars, modelLoaded, simState, auditLog, PENDING_DECISIONS, evOld, stopPc, resp>>

\* Sections 2-5, lines 817-849: prediction, governance, crowd intel.
AnalyzePredict ==
    /\ ev.pc = "predict"
    /\ \E slope \in SlopeRange(ev.start_lat) \cap SlopeSamples,
          crowd_intel \in CrowdIntelValues :
         LET ai_score == predict_score(modelLoaded, ev.rain_input, slope) IN
         ev' = [ev EXCEPT !.pc = "iot_river",
                          !.slope_angle = slope,
                          !.landslide_score = ai_score,
                          !.governance_result =
                              validate_risk(ev.rain_input, slope, ai_score),
                          !.crowd_intel = crowd_intel]
    /\ UNCHANGED <<raceVars, opsDone, created, closed, decided, gov, prev, sideVars, modelLoaded, simState, auditLog, PENDING_DECISIONS, evOld, stopPc, resp>>

\* Line 852, get_live_readings: the call takes its reference to the state
\* dict and reads it for the first sensor.
AnalyzeIotRiver ==
    /\ ev.pc = "iot_river"
    /\ \E v \in SampleValues("RIVER_GAUGE", FlashFlood(simState)) :
         ev' = [ev EXCEPT !.pc = "iot_rest", !.ref = "cur",
                          !.first_reading = Reading(1, FlashFlood(simState), v)]
    /\ UNCHANGED <<raceVars, opsDone, created, closed, decided, gov, prev, sideVars, modelLoaded, simState, auditLog, PENDING_DECISIONS, evOld, stopPc, resp>>

\* Lines 852-859: the remaining sensors, read through the same reference,
\* then check_critical_breach on the feed.
AnalyzeIotRest ==
    /\ ev.pc = "iot_rest"
    /\ \E v2 \in SampleValues("RAIN_GAUGE", FlashFlood(EvDict)),
          v3 \in SampleValues("SOIL_MOISTURE", FlashFlood(EvDict)) :
         LET iot_feed == << ev.first_reading,
                            Reading(2, FlashFlood(EvDict), v2),
                            Reading(3, FlashFlood(EvDict), v3) >>
         IN ev' = [ev EXCEPT !.pc = "sim_read", !.ref = "none",
                             !.first_reading = NoReading,
                             !.iot_status = [k \in 1..3 |-> iot_feed[k].status],
                             !.breach = check_critical_breach(iot_feed)]
    /\ evOld' = SimInit
    /\ UNCHANGED <<raceVars, opsDone, created, closed, decided, gov, prev, sideVars, modelLoaded, simState, auditLog, PENDING_DECISIONS, stopPc, resp>>

\* Section 7, lines 862-863: sim_state and drill_active.
AnalyzeSimRead ==
    /\ ev.pc = "sim_read"
    /\ ev' = [ev EXCEPT !.pc = "final", !.ref = "cur",
                        !.drill_active = simState.active]
    /\ UNCHANGED <<raceVars, opsDone, created, closed, decided, gov, prev, sideVars, modelLoaded, simState, auditLog, PENDING_DECISIONS, evOld, stopPc, resp>>

\* Sections 8-11, lines 865-980; sim_state['scenario'] is read at line 895,
\* in the drill branch only.
AnalyzeFinal ==
    /\ ev.pc = "final"
    /\ LET crowd_risk == crowd_risk_of(ev.crowd_intel)
           iot_risk == IF ev.breach.alert THEN "CRITICAL" ELSE "SAFE"
           f == risk_factors(ev.landslide_score, ev.slope_angle, ev.rain_input,
                             crowd_risk, iot_risk)
           scenario == IF ev.drill_active THEN EvDict.scenario ELSE None
       IN ev' = [ev EXCEPT !.pc = "done", !.ref = "none",
                           !.scenario = scenario,
                           !.factors = f,
                           !.result =
                               FinalVerdict(ev.governance_result, composite_score(f),
                                            ev.landslide_score, ev.slope_angle,
                                            ev.rain_input, ev.start_lat, crowd_risk,
                                            ev.crowd_intel, ev.breach,
                                            ev.drill_active, scenario)]
    /\ evOld' = SimInit
    /\ UNCHANGED <<raceVars, opsDone, created, closed, decided, gov, prev, sideVars, modelLoaded, simState, auditLog, PENDING_DECISIONS, stopPc, resp>>

\* The response has been sent.
AnalyzeReturn ==
    /\ ev.pc = "done"
    /\ ev' = EvIdle
    /\ UNCHANGED <<raceVars, opsDone, created, closed, decided, gov, prev, sideVars, modelLoaded, simState, auditLog, PENDING_DECISIONS, evOld, stopPc, resp>>

Analyze ==
    \/ \E rain_input \in RainInputs, start_lat \in Lats : AnalyzeStart(rain_input, start_lat)
    \/ AnalyzeRainFeed
    \/ AnalyzePredict
    \/ AnalyzeIotRiver
    \/ AnalyzeIotRest
    \/ AnalyzeSimRead
    \/ AnalyzeFinal
    \/ AnalyzeReturn

(***************************************************************************)
(* analyze_route when the crowd-intel source is unavailable                *)
(***************************************************************************)
\* Line 843: CrowdManager.evaluate_zone is called outside any try block (the
\* only handler of analyze_route is the one of lines 806-814, around the
\* rainfall lookup).  When the source raises, sections 2-4 have run and the
\* exception leaves the handler: the evaluation has no verdict.
AnalyzeCrowdUnavailable ==
    /\ ev.pc = "predict"
    /\ ev' = [ev EXCEPT !.pc = "failed"]
    /\ UNCHANGED <<raceVars, opsDone, created, closed, decided, gov, prev, sideVars, modelLoaded, simState, auditLog, PENDING_DECISIONS, evOld, stopPc, resp>>

\* The framework turns the uncaught exception into a status 500 response.
AnalyzeAbort ==
    /\ ev.pc = "failed"
    /\ ev' = EvIdle
    /\ resp' = [op |-> "analyze_route", code |-> 500, id |-> 0]
    /\ UNCHANGED <<raceVars, opsDone, created, closed, decided, gov, prev, sideVars, modelLoaded, simState, auditLog, PENDING_DECISIONS, evOld, stopPc>>

\* One evaluation at a time, each of its source calls answering or failing.
NextFault == Analyze \/ AnalyzeCrowdUnavailable \/ AnalyzeAbort

SpecFault == Init /\ [][NextFault]_vars


(***************************************************************************)
(* DecisionEngine.create_proposal                                          *)
(***************************************************************************)
\* The ids str(uuid.uuid4())[:8] can take: eight hex digits of a random uuid.
MaxIds == 2
ProposalIds == 1..MaxIds

\* risk_data["risk"] (line 70) and risk_data["reason"] (line 90) raise
\* KeyError for a dict without the key.
create_proposal_raises(risk_data) ==
    "risk" \notin DOMAIN risk_data \/ "reason" \notin DOMAIN risk_data

\* Mutant: the actions of HIGH and MODERATE are exchanged.
create_proposal_swapped(risk_data, lat, lng, proposal_id) ==
    [id |-> proposal_id,
     type |-> IF risk_data.risk = "CRITICAL" THEN "MASS_EVACUATION_ALERT"
              ELSE IF risk_data.risk = "HIGH" THEN "ISSUE_CITIZEN_ADVISORY"
              ELSE IF risk_data.risk = "MODERATE" THEN "DEPLOY_NDRF_SCOUT"
              ELSE "MONITOR_ONLY",
     target_zone |-> [lat |-> lat, lng |-> lng, radius |-> "5km"],
     reason |-> risk_data.reason,
     ai_confidence |-> IF "score" \in DOMAIN risk_data THEN risk_data.score ELSE 0,
     source_intel |-> IF "source" \in DOMAIN risk_data THEN risk_data.source
                      ELSE "Unknown",
     status |-> "PENDING_APPROVAL",
     urgency |-> IF risk_data.risk = "CRITICAL" THEN "IMMEDIATE"
                 ELSE IF risk_data.risk = "HIGH" THEN "HIGH"
                 ELSE IF risk_data.risk = "MODERATE" THEN "MEDIUM"
                 ELSE "LOW"]

\* Mutant: the target zone is the drill's default position, not the arguments.
create_proposal_fixed_zone(risk_data, lat, lng, proposal_id) ==
    [id |-> proposal_id,
     type |-> IF risk_data.risk = "CRITICAL" THEN "MASS_EVACUATION_ALERT"
              ELSE IF risk_data.risk = "HIGH" THEN "DEPLOY_NDRF_SCOUT"
              ELSE IF risk_data.risk = "MODERATE" THEN "ISSUE_CITIZEN_ADVISORY"
              ELSE "MONITOR_ONLY",
     target_zone |-> [lat |-> 2614, lng |-> 9173, radius |-> "5km"],
     reason |-> risk_data.reason,
     ai_confidence |-> IF "score" \in DOMAIN risk_data THEN risk_data.score ELSE 0,
     source_intel |-> IF "source" \in DOMAIN risk_data THEN risk_data.source
                      ELSE "Unknown",
     status |-> "PENDING_APPROVAL",
     urgency |-> IF risk_data.risk = "CRITICAL" THEN "IMMEDIATE"
                 ELSE IF risk_data.risk = "HIGH" THEN "HIGH"
                 ELSE IF risk_data.risk = "MODERATE" THEN "MEDIUM"
                 ELSE "LOW"]

create_proposal(risk_data, lat, lng, proposal_id) ==
    [id |-> proposal_id,
     type |-> IF risk_data.risk = "CRITICAL" THEN "MASS_EVACUATION_ALERT"
              ELSE IF risk_data.risk = "HIGH" THEN "DEPLOY_NDRF_SCOUT"
              ELSE IF risk_data.risk = "MODERATE" THEN "ISSUE_CITIZEN_ADVISORY"
              ELSE "MONITOR_ONLY",
     target_zone |-> [lat |-> lat, lng |-> lng, radius |-> "5km"],
     reason |-> risk_data.reason,
     ai_confidence |-> IF "score" \in DOMAIN risk_data THEN risk_data.score ELSE 0,
     source_intel |-> IF "source" \in DOMAIN risk_data THEN risk_data.source
                      ELSE "Unknown",
     status |-> "PENDING_APPROVAL",
     urgency |-> IF risk_data.risk = "CRITICAL" THEN "IMMEDIATE"
                 ELSE IF risk_data.risk = "HIGH" THEN "HIGH"
                 ELSE IF risk_data.risk = "MODERATE" THEN "MEDIUM"
                 ELSE "LOW"]

(***************************************************************************)
(* The admin endpoints of the drill                                        *)
(***************************************************************************)
\* SecurityGate.verify_admin: 403 unless the key is the master key.
verify_admin(api_key) == api_key = MASTER_ADMIN_KEY

\* SimulationManager.start_scenario's return value.
start_scenario_result(scenario_type) == [status |-> "ACTIVE", mode |-> scenario_type]

\* Lines 307-309: insert at the front unless a pending proposal has the reason.
InsertUnlessDuplicate(pending, proposal, reason) ==
    IF \E i \in 1..Len(pending) : pending[i].reason = reason
    THEN pending
    ELSE <<proposal>> \o pending

\* POST /admin/simulate/start, lines 289-311.  start_scenario rebinds
\* SimulationManager.state to a new dict; a reference taken before keeps the
\* old one.
StartSimulation(scenario, api_key, proposal_id) ==
    /\ Len(auditLog) < MaxAudit
    /\ IF ~verify_admin(api_key)
       THEN /\ resp' = [op |-> "start_simulation", code |-> 403, id |-> 0]
            /\ UNCHANGED <<simState, auditLog, PENDING_DECISIONS, ev, evOld, opsDone>>
       ELSE LET scenario_data == start_scenario_result(scenario) IN
            /\ simState' = start_scenario(scenario, 2614, 9173)
            /\ opsDone' = Append(opsDone, "start_simulation")
            /\ IF ev.ref = "cur"
               THEN evOld' = simState /\ ev' = [ev EXCEPT !.ref = "old"]
               ELSE UNCHANGED <<ev, evOld>>
            /\ auditLog' = AuditLogger_log(auditLog, "ADMIN", "DRILL_INITIATED",
                                           scenario, "WARN")
            /\ IF create_proposal_raises(scenario_data)
               THEN /\ resp' = [op |-> "start_simulation", code |-> 500, id |-> 0]
                    /\ UNCHANGED PENDING_DECISIONS
               ELSE LET proposal == create_proposal(scenario_data, 2614, 9173, proposal_id) IN
                    /\ PENDING_DECISIONS' =
                           InsertUnlessDuplicate(PENDING_DECISIONS, proposal,
                                                 scenario_data.reason)
                    /\ resp' = [op |-> "start_simulation", code |-> 200,
                                id |-> proposal.id]
    /\ UNCHANGED <<raceVars, created, closed, decided, gov, prev, sideVars, modelLoaded, stopPc>>

\* POST /admin/simulate/stop, lines 313-323: the audit entry and the clear.
StopBegin(api_key) ==
    /\ stopPc = "idle"
    /\ Len(auditLog) < MaxAudit
    /\ IF ~verify_admin(api_key)
       THEN /\ resp' = [op |-> "stop_simulation", code |-> 403, id |-> 0]
            /\ UNCHANGED <<auditLog, PENDING_DECISIONS, stopPc, opsDone>>
       ELSE /\ auditLog' = AuditLogger_log(auditLog, "ADMIN", "DRILL_STOPPED",
                                           "System Reset to Normal", "INFO")
            /\ opsDone' = Append(opsDone, "stop_simulation")
            /\ PENDING_DECISIONS' = <<>>
            /\ stopPc' = "active"
            /\ UNCHANGED resp
    /\ UNCHANGED <<raceVars, created, closed, decided, gov, prev, sideVars, modelLoaded, simState, ev, evOld>>

\* SimulationManager.stop_simulation, line 29: state["active"] = False, in
\* place in the dict the class attribute refers to at that moment.
StopActive ==
    /\ stopPc = "active"
    /\ simState' = [simState EXCEPT !.active = FALSE]
    /\ stopPc' = "scenario"
    /\ UNCHANGED <<raceVars, opsDone, created, closed, decided, gov, prev, sideVars, modelLoaded, auditLog, PENDING_DECISIONS, ev, evOld, resp>>

\* SimulationManager.stop_simulation, lines 30-31: state["scenario"] = None.
StopScenario ==
    /\ stopPc = "scenario"
    /\ simState' = [simState EXCEPT !.scenario = None]
    /\ stopPc' = "idle"
    /\ resp' = [op |-> "stop_simulation", code |-> 200, id |-> 0]
    /\ UNCHANGED <<raceVars, opsDone, created, closed, decided, gov, prev, sideVars, modelLoaded, auditLog, PENDING_DECISIONS, ev, evOld>>

Start ==
    \E scenario \in Scenarios, api_key \in ApiKeys, proposal_id \in ProposalIds :
        StartSimulation(scenario, api_key, proposal_id)

Stop ==
    \/ \E api_key \in ApiKeys : StopBegin(api_key)
    \/ StopActive
    \/ StopScenario

(***************************************************************************)
(* Specifications                                                          *)
(***************************************************************************)
\* Evaluations running concurrently with the drill endpoints (the sync
\* handlers run on a thread pool).
NextEval == Analyze \/ Start \/ Stop

SpecEval == Init /\ [][NextEval]_vars

(***************************************************************************)
(* The mesh relay, lines 1053-1070                                         *)
(***************************************************************************)
\* "Keep only last 50 messages", line 1064.
MESH_LIMIT == 50

\* The sends of a run.
MaxSends == 60

\* msg.dict() of the n-th message appended: its text and timestamp tell the
\* messages apart.
MeshMessage(sender, n) == [sender |-> sender, text |-> n, timestamp |-> n]

\* Mutant: list.pop() in place of list.pop(0).
pop_last(buffer) == SubSeq(buffer, 1, Len(buffer) - 1)

\* list.pop(0), line 1065.
pop_first(buffer) == Tail(buffer)

\* Line 1062: MESH_BUFFER.append(msg.dict()).  The phones take turns, so
\* that a message's sender follows from its number.
MeshAppend(t) ==
    /\ meshPc[t] = "idle"
    /\ Len(meshSent) < MaxSends
    /\ t = (IF Len(meshSent) % 2 = 0 THEN "phone_a" ELSE "phone_b")
    /\ LET msg == MeshMessage(t, Len(meshSent) + 1) IN
       /\ MESH_BUFFER' = Append(MESH_BUFFER, msg)
       /\ meshSent' = Append(meshSent, msg)
    /\ meshPc' = [meshPc EXCEPT ![t] = "check"]
    /\ UNCHANGED <<coreVars, logisticsVars, comp, dbVars>>

\* Line 1064: if len(MESH_BUFFER) > 50.
MeshCheck(t) ==
    /\ meshPc[t] = "check"
    /\ meshPc' = [meshPc EXCEPT ![t] = IF Len(MESH_BUFFER) > MESH_LIMIT
                                       THEN "pop" ELSE "idle"]
    /\ UNCHANGED <<coreVars, logisticsVars, comp, dbVars, MESH_BUFFER, meshSent>>

\* Line 1065: MESH_BUFFER.pop(0), then the response.
MeshPop(t) ==
    /\ meshPc[t] = "pop"
    /\ MESH_BUFFER' = pop_first(MESH_BUFFER)
    /\ meshPc' = [meshPc EXCEPT ![t] = "idle"]
    /\ UNCHANGED <<coreVars, logisticsVars, comp, dbVars, meshSent>>

\* GET /mesh/messages, lines 1068-1070.
get_mesh_messages == MESH_BUFFER

AllMeshIdle == \A t \in Senders : meshPc[t] = "idle"

\* send_mesh_message calls of the two phones, one call after the other.
NextMesh ==
    \/ AllMeshIdle /\ \E t \in Senders : MeshAppend(t)
    \/ \E t \in Senders : MeshCheck(t)
    \/ \E t \in Senders : MeshPop(t)

SpecMesh == Init /\ [][NextMesh]_vars

\* The same calls running at once on the thread pool.
NextMeshRace ==
    \/ \E t \in Senders : MeshAppend(t)
    \/ \E t \in Senders : MeshCheck(t)
    \/ \E t \in Senders : MeshPop(t)

SpecMeshRace == Init /\ [][NextMeshRace]_vars

(***************************************************************************)
(* The scoring of analyze_route on its own, with no override               *)
(***************************************************************************)
\* The rainfall inputs of the scoring: every integer between the bounds.
MaxRain == 120
CompRains == (0 - MaxRain)..MaxRain

\* Any predictor state, any rainfall and any position; the slope is drawn
\* later, from the range of the position.
InitComp ==
    /\ modelLoaded \in BOOLEAN
    /\ simState = SimInit
    /\ auditLog = <<>>
    /\ PENDING_DECISIONS = <<>>
    /\ ev = EvIdle
    /\ evOld = SimInit
    /\ stopPc = "idle"
    /\ resp = NoResp
    /\ decided = {}
    /\ lock = 0
    /\ calls = [c \in Callers |-> CallIdle]
    /\ subs = [c \in Submitters |-> SubIdle]
    /\ opsDone = <<>>
    /\ created = NoCreated
    /\ closed = FALSE
    /\ gov = GovIdle
    /\ prev = NoPrev
    /\ FLEET = FleetInit
    /\ active_missions = [mission_id \in {} |-> NoMission]
    /\ dispatched = <<>>
    /\ MESH_BUFFER = <<>>
    /\ meshSent = <<>>
    /\ meshPc = [t \in Senders |-> "idle"]
    /\ authority_decisions = <<>>
    /\ audit_logs = <<>>
    /\ rec = RecIdle
    /\ comp \in [pc : {"call"}, loaded : {modelLoaded}, rain_input : CompRains,
                 slope : {0}, lat : Lats, landslide_score : {0}, composite : {0},
                 result : {NoResult}]

\* Sections 2-3, lines 817-822: predict draws the slope and scores.
CompPredict ==
    /\ comp.pc = "call"
    /\ \E slope \in SlopeRange(comp.lat) :
         comp' = [comp EXCEPT !.pc = "predicted", !.slope = slope,
                              !.landslide_score =
                                  predict_score(comp.loaded, comp.rain_input, slope)]
    /\ UNCHANGED <<coreVars, logisticsVars, meshVars, dbVars>>

\* Sections 4-9, lines 837-940, with no drill, no breach and crowd intel
\* absent or below HIGH (crowd_risk SAFE).
CompScore ==
    /\ comp.pc = "predicted"
    /\ LET f == risk_factors(comp.landslide_score, comp.slope, comp.rain_input,
                             "SAFE", "SAFE")
       IN comp' = [comp EXCEPT !.pc = "returned",
                               !.composite = composite_score(f),
                               !.result =
                                   FinalVerdict(validate_risk(comp.rain_input, comp.slope,
                                                              comp.landslide_score),
                                                composite_score(f), comp.landslide_score,
                                                comp.slope, comp.rain_input, comp.lat,
                                                "SAFE", NoCrowdIntel, NoBreach, FALSE,
                                                None)]
    /\ UNCHANGED <<coreVars, logisticsVars, meshVars, dbVars>>

NextComp == CompPredict \/ CompScore

SpecComp == InitComp /\ [][NextComp]_vars

(***************************************************************************)
(* record_authority_decision, core/routing.py lines 209-242                *)
(***************************************************************************)
\* The routes in the database, and the route ids of requests.
ExistingRoutes == {"route-1"}
RouteIds == {"route-1", "route-9"}
Payloads ==
    [route_id : RouteIds, actor_role : {"DISTRICT"},
     decision : {"APPROVED", "REJECTED"}, actor : {"officer"}]

\* The calls of a run.
MaxCalls == 3

\* What a statement sent to the database can end in.
DbOutcomes == {"ok", "IntegrityError", "SQLAlchemyError"}

\* The status of the HTTPException of lines 239-242.
ErrorCode(outcome) == IF outcome = "IntegrityError" THEN 404 ELSE 500

\* AuthorityDecision(...), lines 216-220, and AuditLog(...), lines 224-233,
\* each with the transaction that holds it.
DecisionRow(r) ==
    [route_id |-> r.route_id, actor_role |-> r.payload.actor_role,
     decision |-> r.payload.decision, txn |-> r.txn]

AuditRow(r) ==
    [actor |-> r.payload.actor, action |-> "AUTHORITY_DECISION",
     route_id |-> r.route_id, actor_role |-> r.payload.actor_role,
     decision |-> r.payload.decision, txn |-> r.txn]

\* Lines 211-215: the route_id test, then the session is opened.
RecordCall(route_id, payload) ==
    /\ rec.pc = "idle"
    /\ rec.txn < MaxCalls
    /\ rec' = [pc |-> IF payload.route_id # route_id THEN "returned" ELSE "flush",
               route_id |-> route_id, payload |-> payload, txn |-> rec.txn + 1,
               pending |-> <<>>,
               code |-> IF payload.route_id # route_id THEN 400 ELSE 0,
               rejected |-> FALSE]
    /\ UNCHANGED <<coreVars, logisticsVars, meshVars, comp, authority_decisions, audit_logs>>

\* Mutant: the decision is committed on its own before the audit entry is
\* added.
RecordFlush_commits ==
    /\ rec.pc = "flush"
    /\ \E outcome \in DbOutcomes :
         /\ outcome = "ok" => rec.route_id \in ExistingRoutes
         /\ IF outcome = "ok"
            THEN /\ rec' = [rec EXCEPT !.pc = "commit", !.pending = <<>>]
                 /\ authority_decisions' = Append(authority_decisions, DecisionRow(rec))
            ELSE /\ rec' = [rec EXCEPT !.pc = "returned", !.pending = <<>>,
                                       !.code = ErrorCode(outcome), !.rejected = TRUE]
                 /\ UNCHANGED authority_decisions
    /\ UNCHANGED <<coreVars, logisticsVars, meshVars, comp, audit_logs>>

\* Lines 216-222: session.add(decision), session.flush().  The INSERT runs
\* inside the open transaction; a route that does not exist is refused
\* (IntegrityError), and any statement can fail (SQLAlchemyError).  Leaving
\* the with block on an exception closes the session, which rolls back.
RecordFlush ==
    /\ rec.pc = "flush"
    /\ \E outcome \in DbOutcomes :
         /\ outcome = "ok" => rec.route_id \in ExistingRoutes
         /\ rec' = IF outcome = "ok"
                   THEN [rec EXCEPT !.pc = "commit", !.pending = <<DecisionRow(rec)>>]
                   ELSE [rec EXCEPT !.pc = "returned", !.pending = <<>>,
                                    !.code = ErrorCode(outcome), !.rejected = TRUE]
    /\ UNCHANGED <<coreVars, logisticsVars, meshVars, comp, authority_decisions, audit_logs>>

\* Lines 224-235: session.add(audit_entry), session.commit().  The commit
\* stores the decision and the audit entry together or fails and stores
\* neither.
RecordCommit ==
    /\ rec.pc = "commit"
    /\ \E outcome \in DbOutcomes :
         IF outcome = "ok"
         THEN /\ authority_decisions' = authority_decisions \o rec.pending
              /\ audit_logs' = Append(audit_logs, AuditRow(rec))
              /\ rec' = [rec EXCEPT !.pc = "refresh", !.pending = <<>>]
         ELSE /\ rec' = [rec EXCEPT !.pc = "returned", !.pending = <<>>,
                                    !.code = ErrorCode(outcome), !.rejected = TRUE]
              /\ UNCHANGED <<authority_decisions, audit_logs>>
    /\ UNCHANGED <<coreVars, logisticsVars, meshVars, comp>>

\* Lines 236-238: session.refresh(decision) reads the row back; then the
\* RECORDED response.  A failure of the read is answered 500 (line 242) after
\* the commit.
RecordRefresh ==
    /\ rec.pc = "refresh"
    /\ \E outcome \in {"ok", "SQLAlchemyError"} :
         rec' = [rec EXCEPT !.pc = "returned",
                            !.code = IF outcome = "ok" THEN 200 ELSE 500]
    /\ UNCHANGED <<coreVars, logisticsVars, meshVars, comp, authority_decisions, audit_logs>>

\* The response has been sent.
RecordReturn ==
    /\ rec.pc = "returned"
    /\ rec' = [pc |-> "idle", txn |-> rec.txn]
    /\ UNCHANGED <<coreVars, logisticsVars, meshVars, comp, authority_decisions, audit_logs>>

NextRecord ==
    \/ \E route_id \in RouteIds, payload \in Payloads : RecordCall(route_id, payload)
    \/ RecordFlush
    \/ RecordCommit
    \/ RecordRefresh
    \/ RecordReturn

SpecRecord == Init /\ [][NextRecord]_vars

\* Dispatch requests, one call at a time.
NextDispatch == Dispatch

SpecDispatch == Init /\ [][NextDispatch]_vars

\* The same handlers, each running to completion before the next starts.
NextSeq ==
    \/ stopPc = "idle" /\ Analyze
    \/ ev.pc = "idle" /\ stopPc = "idle" /\ Start
    \/ ev.pc = "idle" /\ Stop

SpecSeq == Init /\ [][NextSeq]_vars


(***************************************************************************)
(* validate_risk on its own, over all combinations of its arguments        *)
(***************************************************************************)
GovRains == {0, 40, 41, 50, 100, 101, 250}
GovSlopes == {5, 45, 46, 50}
\* AI scores, in tenths.
GovScores == {0, 350, 399, 400, 699, 700, 900}

InitGov ==
    /\ modelLoaded = FALSE
    /\ simState = SimInit
    /\ auditLog = <<>>
    /\ PENDING_DECISIONS = <<>>
    /\ ev = EvIdle
    /\ evOld = SimInit
    /\ stopPc = "idle"
    /\ resp = NoResp
    /\ decided = {}
    /\ lock = 0
    /\ calls = [c \in Callers |-> CallIdle]
    /\ subs = [c \in Submitters |-> SubIdle]
    /\ opsDone = <<>>
    /\ created = NoCreated
    /\ closed = FALSE
    /\ InitSide
    /\ prev = NoPrev
    /\ gov \in [pc : {"call"}, rain_mm : GovRains, slope_angle : GovSlopes,
                ai_prediction_score : GovScores, out : {NoVerdict}]

GovValidate ==
    /\ gov.pc = "call"
    /\ gov' = [gov EXCEPT !.pc = "returned",
                          !.out = validate_risk(gov.rain_mm, gov.slope_angle,
                                                gov.ai_prediction_score)]
    /\ UNCHANGED <<raceVars, opsDone, created, closed, decided, prev, sideVars, modelLoaded, simState, auditLog, PENDING_DECISIONS, ev, evOld,
                   stopPc, resp>>

SpecGov == InitGov /\ [][GovValidate]_vars

(***************************************************************************)
(* Two evaluations in a row, the first one remembered                      *)
(***************************************************************************)
\* The response has been sent; the evaluation is remembered.
AnalyzeReturnObserved ==
    /\ ev.pc = "done"
    /\ prev' = Snapshot(ev)
    /\ ev' = EvIdle
    /\ UNCHANGED <<raceVars, opsDone, created, closed, decided, gov, sideVars, modelLoaded, simState, auditLog, PENDING_DECISIONS, evOld,
                   stopPc, resp>>

NextDet ==
    \/ \E rain_input \in RainInputs, start_lat \in Lats : AnalyzeStart(rain_input, start_lat)
    \/ AnalyzeRainFeed
    \/ AnalyzePredict
    \/ AnalyzeIotRiver
    \/ AnalyzeIotRest
    \/ AnalyzeSimRead
    \/ AnalyzeFinal
    \/ AnalyzeReturnObserved

SpecDet == Init /\ [][NextDet]_vars

(***************************************************************************)
(* GovernanceWorkflow: submit and decide over PENDING_DECISIONS.  main.py  *)
(* keeps the pending list (line 46) and fills it with create_proposal's    *)
(* proposals, but has no decide endpoint: submit and decide follow section *)
(* 4.5 of the specification.                                               *)
(***************************************************************************)
\* The verdicts proposals are made from: one per rule of validate_risk.
VerdictSamples ==
    { validate_risk(101, 5, 900), validate_risk(50, 46, 900),
      validate_risk(0, 5, 500) }

DecideActions == {"APPROVE", "REJECT", "HOLD"}
NotesSamples == {"ok"}

\* The audit action of an approval: "AUTHORIZED_" followed by the proposal's type.
AuthorizedAction(type) ==
    CASE type = "MASS_EVACUATION_ALERT" -> "AUTHORIZED_MASS_EVACUATION_ALERT"
      [] type = "DEPLOY_NDRF_SCOUT" -> "AUTHORIZED_DEPLOY_NDRF_SCOUT"
      [] type = "ISSUE_CITIZEN_ADVISORY" -> "AUTHORIZED_ISSUE_CITIZEN_ADVISORY"
      [] OTHER -> "AUTHORIZED_MONITOR_ONLY"

PendingIds(pending) == { pending[i].id : i \in 1..Len(pending) }

\* The first pending proposal with the id.
Lookup(pending, proposal_id) ==
    pending[CHOOSE i \in 1..Len(pending) :
                /\ pending[i].id = proposal_id
                /\ \A j \in 1..(i - 1) : pending[j].id # proposal_id]

RemoveId(pending, proposal_id) ==
    SelectSeq(pending, LAMBDA p : p.id # proposal_id)

\* The id of a proposal create_proposal returned (none before the first).
IdOf(proposal) == IF proposal = NoProposal THEN {} ELSE {proposal.id}

\* create_proposal has returned the proposal for the arguments.
Created(proposal, risk_data, lat, lng) ==
    [last |-> proposal, risk_data |-> risk_data, lat |-> lat, lng |-> lng,
     ids |-> created.ids \cup IdOf(created.last)]

\* propose_and_enqueue: create_proposal on the verdict, then submit.
Submit(verdict, proposal_id) ==
    LET proposal == create_proposal(verdict, 2614, 9173, proposal_id) IN
    /\ PENDING_DECISIONS' =
           InsertUnlessDuplicate(PENDING_DECISIONS, proposal, proposal.reason)
    /\ created' = Created(proposal, verdict, 2614, 9173)
    /\ resp' = [op |-> "submit", code |-> 200, id |-> proposal.id]
    /\ UNCHANGED <<raceVars, opsDone, closed, decided, gov, prev, sideVars, modelLoaded, simState, auditLog, ev, evOld, stopPc>>

\* Mutant: an action other than APPROVE is taken as a rejection.
Decide_coerced(proposal_id, action, notes) ==
    /\ IF proposal_id \notin PendingIds(PENDING_DECISIONS)
       THEN /\ resp' = [op |-> "decide", code |-> 404, id |-> proposal_id]
            /\ UNCHANGED <<PENDING_DECISIONS, auditLog, decided>>
       ELSE LET proposal == Lookup(PENDING_DECISIONS, proposal_id) IN
            /\ Len(auditLog) < MaxAudit
            /\ PENDING_DECISIONS' = RemoveId(PENDING_DECISIONS, proposal_id)
            /\ auditLog' =
                   IF action = "APPROVE"
                   THEN AuditLogger_log(auditLog, "COMMANDER",
                                        AuthorizedAction(proposal.type), notes,
                                        "CRITICAL")
                   ELSE AuditLogger_log(auditLog, "COMMANDER", "REJECTED_ACTION",
                                        notes, "WARN")
            /\ decided' = decided \cup {proposal_id}
            /\ resp' = [op |-> "decide", code |-> 200, id |-> proposal_id]
    /\ UNCHANGED <<raceVars, opsDone, created, closed, gov, prev, sideVars, modelLoaded, simState, ev, evOld, stopPc>>

\* decide(proposal_id, action, notes): 400 for an action that is neither
\* APPROVE nor REJECT, 404 (NotFoundError) for an id that is not pending.
Decide(proposal_id, action, notes) ==
    /\ IF action \notin {"APPROVE", "REJECT"}
       THEN /\ resp' = [op |-> "decide", code |-> 400, id |-> proposal_id]
            /\ UNCHANGED <<PENDING_DECISIONS, auditLog, decided>>
       ELSE IF proposal_id \notin PendingIds(PENDING_DECISIONS)
       THEN /\ resp' = [op |-> "decide", code |-> 404, id |-> proposal_id]
            /\ UNCHANGED <<PENDING_DECISIONS, auditLog, decided>>
       ELSE LET proposal == Lookup(PENDING_DECISIONS, proposal_id) IN
            /\ Len(auditLog) < MaxAudit
            /\ PENDING_DECISIONS' = RemoveId(PENDING_DECISIONS, proposal_id)
            /\ auditLog' =
                   IF action = "APPROVE"
                   THEN AuditLogger_log(auditLog, "COMMANDER",
                                        AuthorizedAction(proposal.type), notes,
                                        "CRITICAL")
                   ELSE AuditLogger_log(auditLog, "COMMANDER", "REJECTED_ACTION",
                                        notes, "WARN")
            /\ decided' = decided \cup {proposal_id}
            /\ resp' = [op |-> "decide", code |-> 200, id |-> proposal_id]
    /\ UNCHANGED <<raceVars, opsDone, created, closed, gov, prev, sideVars, modelLoaded, simState, ev, evOld, stopPc>>

Propose ==
    \E verdict \in VerdictSamples, proposal_id \in ProposalIds :
        Submit(verdict, proposal_id)

Resolve ==
    \E proposal_id \in ProposalIds, action \in DecideActions, notes \in NotesSamples :
        Decide(proposal_id, action, notes)

\* The workflow and the drill endpoints, one call at a time.
NextFlow ==
    \/ stopPc = "idle" /\ Propose
    \/ stopPc = "idle" /\ Resolve
    \/ stopPc = "idle" /\ Start
    \/ Stop

SpecFlow == Init /\ [][NextFlow]_vars

\* The workflow on its own: submissions and decisions, one call at a time.
ProposeCritical ==
    \E proposal_id \in ProposalIds :
        Submit(validate_risk(101, 5, 900), proposal_id)

NextDecide == ProposeCritical \/ Resolve

SpecDecide == Init /\ [][NextDecide]_vars

(***************************************************************************)
(* decide, call by call: section 5 of the specification has concurrent     *)
(* decide calls serialized by mutual exclusion; lookup, removal and audit  *)
(* entry happen inside it.                                                 *)
(***************************************************************************)
\* Mutant: no mutual exclusion, every call enters at once.
MayEnter_unlocked(holder) == TRUE

\* A call may enter when no other call holds the mutual exclusion.
MayEnter(holder) == holder = 0

\* A decide call arrives.
DecideCall(c, proposal_id, action, notes) ==
    /\ calls[c].pc = "idle"
    /\ calls' = [calls EXCEPT ![c] =
                    [pc |-> "wait", proposal_id |-> proposal_id, action |-> action,
                     notes |-> notes, code |-> 0,
                     pending_at_call |-> proposal_id \in PendingIds(PENDING_DECISIONS)]]
    /\ UNCHANGED <<lock, subs, opsDone, created, closed, decided, gov, prev, sideVars, modelLoaded, simState, auditLog, PENDING_DECISIONS, ev, evOld, stopPc, resp>>

DecideAcquire(c) ==
    /\ calls[c].pc = "wait"
    /\ MayEnter(lock)
    /\ lock' = c
    /\ calls' = [calls EXCEPT ![c].pc = "lookup"]
    /\ UNCHANGED <<subs, opsDone, created, closed, decided, gov, prev, sideVars, modelLoaded, simState, auditLog, PENDING_DECISIONS, ev, evOld, stopPc, resp>>

\* The lookup: NotFoundError (404) for an id that is not pending.
DecideLookup(c) ==
    /\ calls[c].pc = "lookup"
    /\ calls' = IF calls[c].proposal_id \in PendingIds(PENDING_DECISIONS)
                THEN [calls EXCEPT ![c].pc = "commit"]
                ELSE [calls EXCEPT ![c].pc = "release", ![c].code = 404]
    /\ UNCHANGED <<lock, subs, opsDone, created, closed, decided, gov, prev, sideVars, modelLoaded, simState, auditLog, PENDING_DECISIONS, ev, evOld, stopPc, resp>>

\* The removal and the audit entry.
DecideCommit(c) ==
    LET call == calls[c] IN
    /\ call.pc = "commit"
    /\ Len(auditLog) < MaxAudit
    /\ PENDING_DECISIONS' = RemoveId(PENDING_DECISIONS, call.proposal_id)
    /\ auditLog' =
           IF call.action = "APPROVE"
           THEN AuditLogger_log(auditLog, "COMMANDER",
                                IF call.proposal_id \in PendingIds(PENDING_DECISIONS)
                                THEN AuthorizedAction(
                                         Lookup(PENDING_DECISIONS, call.proposal_id).type)
                                ELSE AuthorizedAction(""),
                                call.notes, "CRITICAL")
           ELSE AuditLogger_log(auditLog, "COMMANDER", "REJECTED_ACTION",
                                call.notes, "WARN")
    /\ decided' = decided \cup {call.proposal_id}
    /\ calls' = [calls EXCEPT ![c].pc = "release", ![c].code = 200]
    /\ UNCHANGED <<lock, subs, opsDone, created, closed, gov, prev, sideVars, modelLoaded, simState, ev, evOld, stopPc, resp>>

DecideRelease(c) ==
    /\ calls[c].pc = "release"
    /\ lock' = IF lock = c THEN 0 ELSE lock
    /\ calls' = [calls EXCEPT ![c].pc = "done"]
    /\ resp' = [op |-> "decide", code |-> calls[c].code, id |-> calls[c].proposal_id]
    /\ UNCHANGED <<subs, opsDone, created, closed, decided, gov, prev, sideVars, modelLoaded, simState, auditLog, PENDING_DECISIONS, ev, evOld, stopPc>>

AllCallsIdle == \A c \in Callers : calls[c].pc = "idle"

\* Proposals are submitted, then each caller makes one decide call.
NextRace ==
    \/ AllCallsIdle /\ Propose
    \/ \E c \in Callers, proposal_id \in ProposalIds, action \in {"APPROVE", "REJECT"},
          notes \in NotesSamples : DecideCall(c, proposal_id, action, notes)
    \/ \E c \in Callers : DecideAcquire(c)
    \/ \E c \in Callers : DecideLookup(c)
    \/ \E c \in Callers : DecideCommit(c)
    \/ \E c \in Callers : DecideRelease(c)

SpecRace == Init /\ [][NextRace]_vars

(***************************************************************************)
(* The submission of start_simulation, lines 304-309, statement by         *)
(* statement: the handlers run on a thread pool and nothing guards the     *)
(* pending list.                                                           *)
(***************************************************************************)
MaxPending == 2

\* Line 304: proposal = DecisionEngine.create_proposal(...).
SubmitCreate(t, verdict, proposal_id) ==
    LET proposal == create_proposal(verdict, 2614, 9173, proposal_id) IN
    /\ subs[t].pc = "idle"
    /\ Len(PENDING_DECISIONS)
           + Cardinality({u \in Submitters : subs[u].pc # "idle"}) < MaxPending
    /\ subs' = [subs EXCEPT ![t] = [pc |-> "check", proposal |-> proposal,
                                    existing |-> FALSE]]
    /\ created' = Created(proposal, verdict, 2614, 9173)
    /\ UNCHANGED <<lock, calls, opsDone, closed, decided, gov, prev, sideVars, modelLoaded, simState, auditLog, PENDING_DECISIONS, ev, evOld, stopPc, resp>>

\* Line 307: existing = next((p for p in PENDING_DECISIONS if p["reason"] == ...), None).
SubmitCheck(t) ==
    /\ subs[t].pc = "check"
    /\ subs' = [subs EXCEPT ![t].pc = "insert",
                            ![t].existing =
                                \E i \in 1..Len(PENDING_DECISIONS) :
                                    PENDING_DECISIONS[i].reason = subs[t].proposal.reason]
    /\ UNCHANGED <<lock, calls, opsDone, created, closed, decided, gov, prev, sideVars, modelLoaded, simState, auditLog, PENDING_DECISIONS, ev, evOld, stopPc, resp>>

\* Lines 308-309: if not existing: PENDING_DECISIONS.insert(0, proposal).
SubmitInsert(t) ==
    /\ subs[t].pc = "insert"
    /\ PENDING_DECISIONS' = IF subs[t].existing THEN PENDING_DECISIONS
                            ELSE <<subs[t].proposal>> \o PENDING_DECISIONS
    /\ subs' = [subs EXCEPT ![t] = SubIdle]
    /\ resp' = [op |-> "submit", code |-> 200, id |-> subs[t].proposal.id]
    /\ UNCHANGED <<lock, calls, opsDone, created, closed, decided, gov, prev, sideVars, modelLoaded, simState, auditLog, ev, evOld, stopPc>>

\* Submissions on the thread pool, and decisions.
NextSubmit ==
    \/ \E t \in Submitters, verdict \in VerdictSamples, proposal_id \in ProposalIds :
           SubmitCreate(t, verdict, proposal_id)
    \/ \E t \in Submitters : SubmitCheck(t)
    \/ \E t \in Submitters : SubmitInsert(t)
    \/ Resolve

SpecSubmit == Init /\ [][NextSubmit]_vars

(***************************************************************************)
(* The other admin operations that write to the audit log                  *)
(***************************************************************************)
Messages == {"Evacuate Zone 4"}
ResourceIds == {"R1", "R9"}

\* Mutant: the broadcast is sent without its audit entry.
BroadcastAlert_unlogged(message, api_key) ==
    /\ Len(auditLog) < MaxAudit
    /\ IF api_key # MASTER_ADMIN_KEY
       THEN /\ resp' = [op |-> "broadcast_alert", code |-> 403, id |-> 0]
            /\ UNCHANGED opsDone
       ELSE /\ opsDone' = Append(opsDone, "broadcast_alert")
            /\ resp' = [op |-> "broadcast_alert", code |-> 200, id |-> 0]
    /\ UNCHANGED <<raceVars, created, closed, decided, gov, prev, sideVars, modelLoaded, simState, auditLog, PENDING_DECISIONS, ev, evOld, stopPc>>

\* POST /admin/broadcast, lines 271-285: the token test, the audit entry, the
\* response.
BroadcastAlert(message, api_key) ==
    /\ Len(auditLog) < MaxAudit
    /\ IF api_key # MASTER_ADMIN_KEY
       THEN /\ resp' = [op |-> "broadcast_alert", code |-> 403, id |-> 0]
            /\ UNCHANGED <<auditLog, opsDone>>
       ELSE /\ auditLog' = AuditLogger_log(auditLog, "ADMIN", "MASS_BROADCAST",
                                           message, "CRITICAL")
            /\ opsDone' = Append(opsDone, "broadcast_alert")
            /\ resp' = [op |-> "broadcast_alert", code |-> 200, id |-> 0]
    /\ UNCHANGED <<raceVars, created, closed, decided, gov, prev, sideVars, modelLoaded, simState, PENDING_DECISIONS, ev, evOld, stopPc>>

\* POST /admin/close-route, lines 735-739: the zone is marked CLOSED, then
\* the audit entry.
AdminCloseRoute(api_key) ==
    /\ Len(auditLog) < MaxAudit
    /\ IF ~verify_admin(api_key)
       THEN /\ resp' = [op |-> "admin_close_route", code |-> 403, id |-> 0]
            /\ UNCHANGED <<auditLog, opsDone, closed>>
       ELSE /\ closed' = TRUE
            /\ auditLog' = AuditLogger_log(auditLog, "ADMIN", "ROUTE_CLOSE",
                                           "Override", "CRITICAL")
            /\ opsDone' = Append(opsDone, "admin_close_route")
            /\ resp' = [op |-> "admin_close_route", code |-> 200, id |-> 0]
    /\ UNCHANGED <<raceVars, created, decided, gov, prev, sideVars, modelLoaded, simState, PENDING_DECISIONS, ev, evOld, stopPc>>

\* POST /admin/resources/{id}/verify and DELETE /admin/resources/{id}, lines
\* 346-384: ResourceSentinel has no verify_resource and no delete_resource
\* (resources.py defines add_resource and get_all only), so line 360 and line
\* 380 raise AttributeError before any change and before the audit entry.
AdminResource(op, resource_id, api_key) ==
    /\ resp' = [op |-> op, code |-> IF api_key # MASTER_ADMIN_KEY THEN 403 ELSE 500,
                id |-> 0]
    /\ UNCHANGED <<raceVars, opsDone, created, closed, decided, gov, prev, sideVars, modelLoaded, simState, auditLog, PENDING_DECISIONS, ev, evOld, stopPc>>

Broadcast == \E message \in Messages, api_key \in ApiKeys : BroadcastAlert(message, api_key)

CloseRoute == \E api_key \in ApiKeys : AdminCloseRoute(api_key)

Resource ==
    \E op \in {"verify_admin_resource", "delete_admin_resource"},
       resource_id \in ResourceIds, api_key \in ApiKeys :
        AdminResource(op, resource_id, api_key)

\* GET /admin/audit-log: the entries in insertion order.
get_audit_trail == auditLog

\* The admin operations, one call at a time.
NextAudit ==
    \/ stopPc = "idle" /\ Start
    \/ Stop
    \/ stopPc = "idle" /\ Broadcast
    \/ stopPc = "idle" /\ CloseRoute
    \/ stopPc = "idle" /\ Resource

SpecAudit == Init /\ [][NextAudit]_vars

(***************************************************************************)
(* create_proposal on its own, among the operations on the state it must   *)
(* leave alone                                                             *)
(***************************************************************************)
\* Verdicts of every level.
CreateVerdicts == VerdictSamples \cup { validate_risk(0, 5, 900) }
\* The positions evaluated: Guwahati and Shillong, in hundredths of a degree.
Positions == { <<2614, 9173>>, <<2557, 9188>> }

\* A call of DecisionEngine.create_proposal(risk_data, lat, lng); the id is
\* the one uuid4 happens to give.
CreateProposal(risk_data, lat, lng, proposal_id) ==
    /\ created' = Created(create_proposal(risk_data, lat, lng, proposal_id),
                          risk_data, lat, lng)
    /\ UNCHANGED <<raceVars, opsDone, closed, decided, gov, prev, sideVars, modelLoaded, simState, auditLog, PENDING_DECISIONS, ev, evOld, stopPc, resp>>

Create ==
    \E risk_data \in CreateVerdicts, position \in Positions, proposal_id \in ProposalIds :
        CreateProposal(risk_data, position[1], position[2], proposal_id)

\* create_proposal and the drill endpoints, one call at a time.
NextCreate ==
    \/ stopPc = "idle" /\ Create
    \/ stopPc = "idle" /\ Start
    \/ Stop

SpecCreate == Init /\ [][NextCreate]_vars

(***************************************************************************)
(* Claims                                                                  *)
(***************************************************************************)
Done == ev.pc = "done"

\* The band of a composite score given in thousandths.
Band(composite) ==
    IF composite >= 75 * 1000 THEN "CRITICAL"
    ELSE IF composite >= 60 * 1000 THEN "HIGH"
    ELSE IF composite >= 40 * 1000 THEN "MODERATE"
    ELSE "SAFE"

CrowdOverride(e) == e.crowd_intel.present /\ e.crowd_intel.risk \in {"HIGH", "CRITICAL"}
SensorCritical(e) == \E k \in DOMAIN e.iot_status : e.iot_status[k] = "CRITICAL"

\* C1: the final risk level of an evaluation is never lower than the level
\* validate_risk returned for the same rain, slope and AI score.
C1_FinalNotBelowGovernance ==
    Done =>
        /\ ev.governance_result =
               validate_risk(ev.rain_input, ev.slope_angle, ev.landslide_score)
        /\ Rank(ev.result.route_risk) >= Rank(ev.governance_result.risk)

\* C2: with the drill active at evaluation time the verdict is CRITICAL, its
\* reason the drill's, naming the active scenario, and its source the drill
\* authority, whatever the IoT, crowd, governance and composite signals are.
C2_DrillWins ==
    (Done /\ simState.active) =>
        /\ ev.drill_active
        /\ ev.result.route_risk = "CRITICAL"
        /\ ev.result.source = DrillSource
        /\ ev.result.reason = Reason("DRILL_ACTIVE", simState.scenario, "", 0, 0, 0)
        /\ simState.scenario \in Scenarios

\* C2's case: a drill, an IoT breach, crowd intel and a calm composite at once.
C2_Witness ==
    /\ Done /\ simState.active /\ ev.breach.alert /\ CrowdOverride(ev)
    /\ composite_score(ev.factors) < 60 * 1000
    /\ ev.result.source = DrillSource

\* C3: with no drill active and a CRITICAL reading in the live feed the
\* verdict is CRITICAL, its reason the message of the breach (the first
\* CRITICAL reading) and its source the sensor grid.
C3_BreachNotMasked ==
    (Done /\ ~ev.drill_active /\ SensorCritical(ev)) =>
        /\ ev.breach.alert
        /\ \E k \in DOMAIN ev.iot_status :
              /\ ev.iot_status[k] = "CRITICAL"
              /\ \A j \in 1..(k - 1) : ev.iot_status[j] # "CRITICAL"
              /\ ev.breach.type = SENSORS[k].type
              /\ ev.breach.location = SENSORS[k].location
        /\ ev.result.route_risk = "CRITICAL"
        /\ ev.result.reason = BreachReason(ev.breach)
        /\ ev.result.source = IoTSource

\* C3's case: a breach, no drill, and a composite and crowd intel that are
\* calmer than CRITICAL.
C3_Witness ==
    /\ Done /\ ~ev.drill_active /\ SensorCritical(ev)
    /\ ~CrowdOverride(ev)
    /\ composite_score(ev.factors) < 60 * 1000
    /\ ev.result.source = IoTSource

\* C4: with no drill and no breach, crowd intel at HIGH or CRITICAL gives
\* exactly that level with the citizen network as source; no other crowd
\* intel ever gives a citizen-network verdict.
C4_CrowdOverride ==
    Done =>
        /\ (~ev.drill_active /\ ~ev.breach.alert /\ CrowdOverride(ev)) =>
               /\ ev.result.route_risk = ev.crowd_intel.risk
               /\ ev.result.source = CrowdSource
        /\ ev.result.source = CrowdSource => CrowdOverride(ev)

\* C4's case: crowd intel HIGH against a composite in another band.
C4_Witness ==
    /\ Done /\ ~ev.drill_active /\ ~ev.breach.alert
    /\ ev.crowd_intel.present /\ ev.crowd_intel.risk = "HIGH"
    /\ Band(composite_score(ev.factors)) # "HIGH"
    /\ ev.result.route_risk = "HIGH"

\* C5: when no override fires the level is the band of the weighted
\* composite, and each of the five sub-scores lies in 0..100.
C5_CompositeBand ==
    Done =>
        /\ (~ev.drill_active /\ ~ev.breach.alert /\ ~CrowdOverride(ev)) =>
               ev.result.route_risk = Band(WeightedSum(ev.factors))
        /\ ev.factors.landslide \in 0..(100 * SCALE)
        /\ ev.factors.terrain \in 0..100
        /\ ev.factors.weather \in 0..100
        /\ ev.factors.crowd_intel \in 0..100
        /\ ev.factors.iot_sensors \in 0..100

\* C5 for rainfall that is not negative: the sub-scores are in range, and
\* the level still is not always the band of the weighted composite.
C5_BandForNonNegativeRain ==
    (Done /\ ev.rain_input >= 0
          /\ ~ev.drill_active /\ ~ev.breach.alert /\ ~CrowdOverride(ev)) =>
        ev.result.route_risk = Band(WeightedSum(ev.factors))

GovReturned == gov.pc = "returned"

\* C6: for rain_mm > 100 validate_risk returns CRITICAL with score 10, for
\* every slope and AI score.
C6_Cloudburst ==
    (GovReturned /\ gov.rain_mm > 100) =>
        gov.out.risk = "CRITICAL" /\ gov.out.score = 10 * SCALE

\* C6's case: the cloudburst rule together with the critical-slope condition
\* and an AI score in the SAFE band.
C6_Witness ==
    /\ GovReturned /\ gov.rain_mm > 100 /\ gov.slope_angle > 45
    /\ gov.ai_prediction_score >= 70 * SCALE
    /\ gov.out.risk = "CRITICAL"

\* C7: for slope_angle > 45 and 40 < rain_mm <= 100 validate_risk returns
\* HIGH with score 30, whatever the AI score is.
C7_CriticalSlope ==
    (GovReturned /\ gov.slope_angle > 45 /\ gov.rain_mm > 40 /\ gov.rain_mm <= 100) =>
        gov.out.risk = "HIGH" /\ gov.out.score = 30 * SCALE

\* C7's case: slope 50, rain 50, AI score 90.
C7_Witness ==
    /\ GovReturned /\ gov.slope_angle = 50 /\ gov.rain_mm = 50
    /\ gov.ai_prediction_score = 90 * SCALE
    /\ gov.out.risk = "HIGH" /\ gov.out.score = 30 * SCALE

\* C8: when neither rule fires, validate_risk returns CRITICAL below 40,
\* MODERATE below 70 and SAFE otherwise, with the AI score as the score,
\* and never HIGH.
C8_AiBands ==
    (GovReturned /\ ~(gov.rain_mm > 100)
                 /\ ~(gov.slope_angle > 45 /\ gov.rain_mm > 40)) =>
        /\ gov.out.risk = IF gov.ai_prediction_score < 40 * SCALE THEN "CRITICAL"
                          ELSE IF gov.ai_prediction_score < 70 * SCALE THEN "MODERATE"
                          ELSE "SAFE"
        /\ gov.out.score = gov.ai_prediction_score
        /\ gov.out.risk # "HIGH"

\* C8's case: AI score 35 with rain and slope below the thresholds.
C8_Witness ==
    /\ GovReturned /\ gov.ai_prediction_score = 35 * SCALE
    /\ gov.rain_mm <= 40 /\ gov.slope_angle > 45
    /\ gov.out.risk = "CRITICAL" /\ gov.out.score = 35 * SCALE

\* C9: two evaluations with identical inputs and identical external signals
\* (simulation state, sensor readings, crowd intel) yield the same level,
\* score, reason and source, and the same predicted score and slope.
C9_Deterministic ==
    (Done /\ prev.valid
          /\ prev.request = ev.request
          /\ prev.rain_input = ev.rain_input
          /\ prev.crowd_intel = ev.crowd_intel
          /\ prev.iot_status = ev.iot_status
          /\ prev.breach = ev.breach
          /\ prev.drill_active = ev.drill_active
          /\ prev.scenario = ev.scenario) =>
        /\ prev.result = ev.result
        /\ prev.landslide_score = ev.landslide_score
        /\ prev.slope_angle = ev.slope_angle

\* The audit actions that begin with AUTHORIZED_.
AuthorizedPrefixed ==
    {"AUTHORIZED_MASS_EVACUATION_ALERT", "AUTHORIZED_DEPLOY_NDRF_SCOUT",
     "AUTHORIZED_ISSUE_CITIZEN_ADVISORY", "AUTHORIZED_MONITOR_ONLY"}

\* C10: a decide with APPROVE or REJECT on a pending id removes it from the
\* pending set and appends exactly one audit entry (AUTHORIZED_<type>, or
\* REJECTED_ACTION); a decide on an id that was decided before answers
\* NotFoundError and changes neither the pending set nor the audit log.
C10_SubmitDecideWorkflow ==
    [][ \A proposal_id \in ProposalIds, action \in {"APPROVE", "REJECT"},
           notes \in NotesSamples :
            Decide(proposal_id, action, notes) =>
                IF proposal_id \in decided
                THEN /\ resp'.code = 404
                     /\ UNCHANGED <<PENDING_DECISIONS, auditLog>>
                ELSE proposal_id \in PendingIds(PENDING_DECISIONS) =>
                     /\ proposal_id \notin PendingIds(PENDING_DECISIONS')
                     /\ Len(auditLog') = Len(auditLog) + 1
                     /\ SubSeq(auditLog', 1, Len(auditLog)) = auditLog
                     /\ LET entry == auditLog'[Len(auditLog')] IN
                        IF action = "APPROVE"
                        THEN entry.action \in AuthorizedPrefixed
                        ELSE entry.action = "REJECTED_ACTION"
      ]_vars

\* C11: of two concurrent decide calls on the same pending id exactly one
\* succeeds and the other observes NotFoundError, exactly one audit entry is
\* appended, and no id a call has decided is still listed as pending.
C11_DecideRace ==
    /\ \A c \in Callers, d \in Callers :
           (/\ c # d
            /\ calls[c].pc = "done" /\ calls[d].pc = "done"
            /\ calls[c].proposal_id = calls[d].proposal_id
            /\ calls[c].pending_at_call /\ calls[d].pending_at_call) =>
               /\ {calls[c].code, calls[d].code} = {200, 404}
               /\ Len(auditLog) = 1
    /\ \A c \in Callers :
           calls[c].code = 200 => calls[c].proposal_id \notin PendingIds(PENDING_DECISIONS)

C11_Witness ==
    /\ \A c \in Callers : calls[c].pc = "done" /\ calls[c].pending_at_call
    /\ calls[1].proposal_id = calls[2].proposal_id
    /\ calls[1].code = 404 /\ calls[2].code = 200
    /\ Len(auditLog) = 1

NoDuplicateReason(pending) ==
    \A i \in 1..Len(pending), j \in 1..Len(pending) :
        i # j => pending[i].reason # pending[j].reason

C13_ProposalLifecycle ==
    [][ /\ \A i \in 1..Len(PENDING_DECISIONS) :
               (\A j \in 1..Len(PENDING_DECISIONS') :
                    PENDING_DECISIONS'[j] # PENDING_DECISIONS[i]) =>
                   /\ resp' = [op |-> "decide", code |-> 200,
                               id |-> PENDING_DECISIONS[i].id]
                   /\ Len(auditLog') = Len(auditLog) + 1
                   /\ auditLog'[Len(auditLog')].action
                          \in AuthorizedPrefixed \cup {"REJECTED_ACTION"}
        /\ \A j \in 1..Len(PENDING_DECISIONS') :
               PENDING_DECISIONS'[j].id \in decided =>
                   \E i \in 1..Len(PENDING_DECISIONS) :
                       PENDING_DECISIONS[i] = PENDING_DECISIONS'[j]
      ]_vars

\* The audit action each state-changing operation writes.
AuditActionOf(op) ==
    CASE op = "start_simulation" -> "DRILL_INITIATED"
      [] op = "stop_simulation" -> "DRILL_STOPPED"
      [] op = "broadcast_alert" -> "MASS_BROADCAST"
      [] op = "admin_close_route" -> "ROUTE_CLOSE"
      [] OTHER -> ""

C15_OverridesAudited ==
    [][ /\ (AnalyzeFinal /\ (ev.drill_active \/ SensorCritical(ev) \/ CrowdOverride(ev))) =>
               Len(auditLog') = Len(auditLog) + 1
        /\ (opsDone' # opsDone /\ Len(opsDone') > 0
                /\ opsDone'[Len(opsDone')] \in {"start_simulation", "stop_simulation"}) =>
               Len(auditLog') = Len(auditLog) + 1
      ]_vars

HasCreated == created.last # NoProposal

\* The order LOW < MEDIUM < HIGH < IMMEDIATE of the urgencies.
UrgencyRank(urgency) ==
    CASE urgency = "LOW" -> 0
      [] urgency = "MEDIUM" -> 1
      [] urgency = "HIGH" -> 2
      [] urgency = "IMMEDIATE" -> 3

C17_CreateProposalPure ==
    /\ [](HasCreated =>
              /\ created.last.status = "PENDING_APPROVAL"
              /\ created.last.target_zone =
                     [lat |-> created.lat, lng |-> created.lng, radius |-> "5km"]
              /\ created.last.reason = created.risk_data.reason
              /\ created.last.source_intel = created.risk_data.source
              /\ created.last.ai_confidence = created.risk_data.score)
    /\ [][ (\E risk_data \in CreateVerdicts, position \in Positions,
               proposal_id \in ProposalIds :
                CreateProposal(risk_data, position[1], position[2], proposal_id)) =>
               UNCHANGED <<PENDING_DECISIONS, auditLog, simState>> ]_vars

C17_Witness ==
    /\ HasCreated
    /\ created.lat = 2557
    /\ created.last.target_zone.lat = 2557
    /\ created.last.ai_confidence = 500
    /\ Len(auditLog) > 0
    /\ simState.active

\* C18: the id of a created proposal differs from the id of every proposal
\* created before, and no two pending proposals share an id.
C18_UniqueIds ==
    /\ HasCreated => created.last.id \notin created.ids
    /\ \A i \in 1..Len(PENDING_DECISIONS), j \in 1..Len(PENDING_DECISIONS) :
           i # j => PENDING_DECISIONS[i].id # PENDING_DECISIONS[j].id

\* clamp(x, lo, hi).
Clamp(x, lo, hi) == Max(lo, Min(x, hi))

\* C19: the score predict returns is within 0..100; with no model loaded it
\* is clamp(100 - rainfall*0.5 - slope_penalty, 0, 100), the penalty being 0
\* up to a slope of 30 and growing with the slope above; the slope is drawn
\* from 30..60 for lat > 26.0 and from 5..20 otherwise.  Scores in tenths.
C19_PredictScore ==
    Done =>
        /\ ev.landslide_score >= 0
        /\ ev.landslide_score <= 100 * SCALE
        /\ ev.slope_angle \in (IF ev.start_lat > 2600 THEN 30..60 ELSE 5..20)
        /\ ~modelLoaded =>
               ev.landslide_score =
                   Clamp(100 * SCALE - ev.rain_input * 5
                             - (IF ev.slope_angle > 30 THEN ev.slope_angle * 5 ELSE 0),
                         0, 100 * SCALE)

\* The part of C19 that is about the range alone.
C19_ScoreInRange ==
    Done => ev.landslide_score >= 0 /\ ev.landslide_score <= 100 * SCALE

\* C20: an unavailable signal source never fails the evaluation: at every
\* point where analyze_route consults a source, the evaluation goes on to a
\* verdict, and no analyze_route call is answered with an error.
C20_SignalFailureTolerated ==
    /\ ev.pc # "failed"
    /\ resp.op = "analyze_route" => resp.code = 200

\* C21: an authorized start_simulation call leaves the simulation active
\* with the requested scenario, answers 200, and the id it returns is the id
\* of a pending proposal for a CRITICAL-level action.
C21_StartInjectsProposal ==
    [][ \A scenario \in Scenarios, proposal_id \in ProposalIds :
          StartSimulation(scenario, MASTER_ADMIN_KEY, proposal_id)
          => /\ simState'.active /\ simState'.scenario = scenario
             /\ resp'.code = 200
             /\ resp'.id \in PendingIds(PENDING_DECISIONS')
             /\ \E i \in 1..Len(PENDING_DECISIONS') :
                  /\ PENDING_DECISIONS'[i].id = resp'.id
                  /\ PENDING_DECISIONS'[i].type = "MASS_EVACUATION_ALERT" ]_vars

\* C27: a start_simulation call that raises while building or injecting the
\* proposal leaves the simulation state, the audit log and the pending queue
\* as they were before the call.
C27_StartFailureNoPartialEffect ==
    [][ \A scenario \in Scenarios, api_key \in ApiKeys, proposal_id \in ProposalIds :
          StartSimulation(scenario, api_key, proposal_id) /\ resp'.code = 500
          => UNCHANGED <<simState, auditLog, PENDING_DECISIONS>> ]_vars

\* C22: a decide whose action is neither APPROVE nor REJECT is answered as
\* invalid input (400); the pending queue, the audit log and the set of
\* decided ids are unchanged, so the proposal is neither approved nor
\* rejected.
C22_InvalidActionRejected ==
    [][ \A proposal_id \in ProposalIds, action \in DecideActions \ {"APPROVE", "REJECT"},
           notes \in NotesSamples :
          Decide(proposal_id, action, notes)
          => /\ resp' = [op |-> "decide", code |-> 400, id |-> proposal_id]
             /\ UNCHANGED <<PENDING_DECISIONS, auditLog, decided>> ]_vars

\* C22's case: a decide with an invalid action on an id that is pending has
\* been answered 400 and the proposal is still pending.
C22_Witness ==
    /\ resp.op = "decide" /\ resp.code = 400
    /\ resp.id \in PendingIds(PENDING_DECISIONS)
    /\ resp.id \notin decided

\* The feed of the evaluation was read while a drill was active: a reading
\* is CRITICAL only when the state read for it is active (get_live_readings,
\* line 28).
FeedReadInDrill(e) == \E k \in 1..Len(e.iot_status) : e.iot_status[k] = "CRITICAL"

\* C23: under every interleaving of an evaluation with start_simulation and
\* stop_simulation, a verdict with the drill source names a scenario in its
\* reason (never the null scenario), and a verdict with the IoT source comes
\* from a feed that was read while no drill was active.
C23_DrillVerdictConsistent ==
    ev.pc = "done"
    => /\ ev.result.source = DrillSource
          => /\ ev.result.reason.kind = "DRILL_ACTIVE"
             /\ ev.result.reason.text \in Scenarios
       /\ ev.result.source = IoTSource => ~FeedReadInDrill(ev)

\* C24: once every start_scenario and stop_simulation call has completed,
\* the state is active exactly when its scenario is not None, and its target
\* position is the one the last start gave it (stop_simulation leaves it).
C24_ActiveIffScenario ==
    stopPc = "idle"
    => /\ simState.active <=> simState.scenario # None
       /\ simState.target_lat = 2614 /\ simState.target_lng = 9173

\* The units with status AVAILABLE.
Available(fleet) == {k \in 1..Len(fleet) : fleet[k] = "AVAILABLE"}

\* C25: a request_dispatch call with a unit AVAILABLE returns a mission for a
\* unit that was AVAILABLE and at the least distance among the AVAILABLE
\* ones, sets that unit (and no other) to DISPATCHED and records the mission
\* under its id; with no unit AVAILABLE it returns None and changes nothing;
\* over the calls so far no unit is in two returned missions.
C25_DispatchNearestAvailable ==
    /\ [](\A i, j \in 1..Len(dispatched) :
            (i # j /\ dispatched[i].ret # NoMission /\ dispatched[j].ret # NoMission)
            => dispatched[i].ret.unit # dispatched[j].ret.unit)
    /\ [][ dispatched' # dispatched
           => LET call == dispatched'[Len(dispatched')]
                  dist(k) == calculate_distance(call.lat, call.lng,
                                                FleetUnits[k].lat, FleetUnits[k].lng)
              IN IF Available(FLEET) = {}
                 THEN call.ret = NoMission /\ UNCHANGED <<FLEET, active_missions>>
                 ELSE \E k \in Available(FLEET) :
                        /\ call.ret.unit = FleetUnits[k].id
                        /\ \A j \in Available(FLEET) : dist(k) <= dist(j)
                        /\ FLEET' = [FLEET EXCEPT ![k] = "DISPATCHED"]
                        /\ call.ret.mission_id \in DOMAIN active_missions'
                        /\ active_missions'[call.ret.mission_id] = call.ret ]_vars

\* C25's case: the three AVAILABLE units have been dispatched, the BUSY one
\* has not, and a further request has returned None.
C25_Witness ==
    /\ Len(dispatched) = 4
    /\ dispatched[4].ret = NoMission
    /\ \A i \in 1..3 : dispatched[i].ret # NoMission
    /\ Available(FLEET) = {}
    /\ FLEET[3] = "BUSY"

\* The last n elements of a sequence (all of it when it is shorter).
LastN(seq, n) == SubSeq(seq, Max(1, Len(seq) - n + 1), Len(seq))

\* C26: after any sequence of send_mesh_message calls, MESH_BUFFER holds
\* at most 50 messages and they are the most recent messages sent, in send
\* order.
C26_MeshBufferBounded ==
    AllMeshIdle
    => /\ Len(get_mesh_messages) <= MESH_LIMIT
       /\ get_mesh_messages = LastN(meshSent, MESH_LIMIT)

\* C26's case: more than 50 messages have been sent, so the oldest have been
\* dropped, and no call is in progress.
C26_Witness ==
    /\ AllMeshIdle
    /\ Len(meshSent) = MESH_LIMIT + 2
    /\ Len(MESH_BUFFER) = MESH_LIMIT
    /\ MESH_BUFFER[1].text = 3

\* C28: with no drill, no IoT breach and crowd risk below HIGH, the composite
\* score is below 75 for every rainfall, slope and predictor score, and the
\* level returned is not CRITICAL.
C28_NoCriticalWithoutOverride ==
    comp.pc = "returned"
    => /\ comp.composite < 75 * 1000
       /\ comp.result.route_risk # "CRITICAL"

\* C28's case: the input with the highest composite (rainfall 50 on slope
\* 30 with no model loaded) has been scored: 69.75, level HIGH.
C28_Witness ==
    /\ comp.pc = "returned"
    /\ comp.rain_input = 50 /\ comp.slope = 30 /\ ~comp.loaded
    /\ comp.composite = 69750
    /\ comp.result.route_risk = "HIGH"

\* The sensors whose reading in the feed of the evaluation is CRITICAL.
CriticalSensors(e) == {k \in 1..Len(e.iot_status) : e.iot_status[k] = "CRITICAL"}

\* C29: the feed get_live_readings returns has a CRITICAL reading exactly
\* when the simulation state the call reads is active with scenario
\* FLASH_FLOOD, and then the river and rain gauges are the CRITICAL ones;
\* check_critical_breach reports a breach exactly then, for the first
\* CRITICAL reading in registry order.
C29_CriticalIffFlashFlood ==
    ev.pc = "sim_read"
    => /\ CriticalSensors(ev) # {} <=> FlashFlood(simState)
       /\ FlashFlood(simState) => CriticalSensors(ev) = {1, 2}
       /\ ev.breach.alert <=> FlashFlood(simState)
       /\ ev.breach.alert
          => LET first == CHOOSE k \in CriticalSensors(ev) :
                              \A j \in CriticalSensors(ev) : k <= j
             IN /\ ev.breach.type = SENSORS[first].type
                /\ ev.breach.location = SENSORS[first].location

\* C29's case: the feed has been read in a FLASH_FLOOD drill and the breach
\* is reported for the river gauge.
C29_Witness ==
    /\ ev.pc = "sim_read"
    /\ FlashFlood(simState)
    /\ ev.breach.alert /\ ev.breach.type = "RIVER_GAUGE"

\* The rows of a table that the transaction stored.
RowsOf(table, txn) == {i \in 1..Len(table) : table[i].txn = txn}

\* C30: every transaction has stored either nothing or one AuthorityDecision
\* row together with one AUTHORITY_DECISION audit entry for the same route
\* and decision; a call whose route_id does not match or whose write the
\* database rejected is answered 400, 404 or 500 and has stored neither row.
C30_DecisionAtomic ==
    /\ \A txn \in 1..MaxCalls :
         /\ Cardinality(RowsOf(authority_decisions, txn))
              = Cardinality(RowsOf(audit_logs, txn))
         /\ Cardinality(RowsOf(authority_decisions, txn)) <= 1
         /\ \A i \in RowsOf(authority_decisions, txn), j \in RowsOf(audit_logs, txn) :
              /\ audit_logs[j].action = "AUTHORITY_DECISION"
              /\ audit_logs[j].route_id = authority_decisions[i].route_id
              /\ audit_logs[j].decision = authority_decisions[i].decision
    /\ (rec.pc = "returned" /\ (rec.rejected \/ rec.payload.route_id # rec.route_id))
       => /\ rec.code \in {400, 404, 500}
          /\ RowsOf(authority_decisions, rec.txn) = {}
          /\ RowsOf(audit_logs, rec.txn) = {}

\* C30's case: one call has stored its decision with its audit entry, and a
\* later call for a route that does not exist has been refused with 404.
C30_Witness ==
    /\ Len(authority_decisions) = 1 /\ Len(audit_logs) = 1
    /\ authority_decisions[1].txn = audit_logs[1].txn
    /\ rec.pc = "returned" /\ rec.rejected /\ rec.code = 404
    /\ rec.txn > authority_decisions[1].txn

====
